---- MODULE Spec2Model ----
(***************************************************************************)
(* A model of go-initramfs: the cpio "newc" stream Writer (writer.go) and  *)
(* the stream Reader (reader.go).                                          *)
(*                                                                         *)
(* The Writer is modelled as a set of operators over a record `iw` that    *)
(* holds the fields of the Go struct together with the state of the sink   *)
(* it writes to; every exported method is one action that applies the      *)
(* corresponding operator to the variables.  What the sink receives is     *)
(* recorded per call, as the sequence of Write calls made on it.           *)
(***************************************************************************)
EXTENDS Integers, Sequences, FiniteSets, TLC

VARIABLES
    closed,         \* Writer.closed
    compressed,     \* Writer.compressed
    curW,           \* Writer.curW: "w" or "cw"
    compW,          \* Writer.compW: "nil" or "cw"
    mkdirs,         \* Writer.mkdirs, the set of keys
    nextInode,      \* Writer.nextInode
    written,        \* Writer.written
    fileRemaining,  \* Writer.fileRemaining
    dataAlignTo,    \* Writer.dataAlignTo
    headerAlignTo,  \* Writer.headerAlignTo
    wire,           \* what the current sink has received (kept by the sink)
    room,           \* bytes the sink still accepts before it fails; < 0: no limit
    call,           \* the last call made on the Writer, and what it did
    nops,           \* number of calls made so far
    inodes,         \* the inode numbers of the headers the sink has received
    input,          \* the bytes of the stream given to NewReader
    rpos,           \* how many of them Reader.br has handed out
    nread,          \* Reader.nread
    fileN,          \* Reader.fileR.N
    rcall,          \* the last call made on the Reader, and what it returned
    expect,         \* the headers the stream was made of, with their offsets
    entry,          \* number of headers Next has returned
    live,           \* the last Next returned a header
    got,            \* payload bytes read since the last Next
    comp,           \* the compressed part of the stream, and whether the
                    \* Reader has entered it
    curMode,        \* a Mode value held by a caller
    fn,             \* the last call of a function or Mode method, and its result
    run,            \* the Reader call in progress, when it is followed step
                    \* by step, and what the last one returned
    par             \* two callers, each with its own Writer, followed access
                    \* by access, and the trailerHeader both can reach

wvars == <<closed, compressed, curW, compW, mkdirs, nextInode, written,
           fileRemaining, dataAlignTo, headerAlignTo, wire, room, call, nops,
           inodes>>

rvars == <<input, rpos, nread, fileN, rcall, expect, entry, live, got, comp>>

fvars == <<curMode, fn, run, par>>

vars == <<wvars, rvars, fvars>>

-----------------------------------------------------------------------------
(* Bounds of the model *)

\* Calls made on one Writer in one behaviour.
MaxOps == 4

\* Writer.nextInode and Header.Inode are uint32; the model keeps the
\* wrap-around of the counter at this narrower modulus.
InodeMod == 256

-----------------------------------------------------------------------------
(* Constants of the program *)

HeaderSize == 110
StartCompressionAlignment == 512
MicrocodeDataAlignment == 16
ZeroPaddingLen == 512

Magic_070701 == "070701"
Magic_070702 == "070702"
TrailerFilename == "TRAILER!!!"
MicrocodePath_GenuineIntel == "kernel/x86/microcode/GenuineIntel.bin"

\* 0o170000, 0o040000, 0o100000, 0o777, 0o700
Mode_FileTypeMask == 61440
Mode_Dir == 16384
Mode_File == 32768
Mode_PermsMask == 511
DefaultMkdirPerm == 448

Min(a, b) == IF a < b THEN a ELSE b
Max(a, b) == IF a > b THEN a ELSE b

-----------------------------------------------------------------------------
(* Mode *)

\* a & b and a | b on unsigned integers
RECURSIVE BitAnd(_, _)
BitAnd(a, b) ==
    IF a = 0 \/ b = 0 THEN 0
    ELSE (a % 2) * (b % 2) + 2 * BitAnd(a \div 2, b \div 2)

BitOr(a, b) == a + b - BitAnd(a, b)

\* Mode.FileType
FileType(m) == BitAnd(m, Mode_FileTypeMask)

\* m & Mode_PermsMask
PermBits(m) == BitAnd(m, Mode_PermsMask)

ModeDir(m) == FileType(m) = Mode_Dir

-----------------------------------------------------------------------------
(* Header *)

\* Mtime is kept in seconds since the Unix epoch; the zero time.Time lies
\* before the epoch, of which the model keeps that it is negative.
Header(name, mode, size, inode) ==
    [Magic |-> "", Inode |-> inode, Mode |-> mode, Uid |-> 0, Gid |-> 0,
     NumLinks |-> 0, Mtime |-> 0 - 1, DataSize |-> size, Major |-> 0, Minor |-> 0,
     RMajor |-> 0, RMinor |-> 0, FilenameSize |-> 0, Checksum |-> 0,
     Filename |-> name]

trailerHeader ==
    [Magic |-> Magic_070701, Inode |-> 0, Mode |-> 0, Uid |-> 0, Gid |-> 0,
     NumLinks |-> 1, Mtime |-> 0 - 1, DataSize |-> 0, Major |-> 0, Minor |-> 0,
     RMajor |-> 0, RMinor |-> 0, FilenameSize |-> Len(TrailerFilename) + 1,
     Checksum |-> 0, Filename |-> TrailerFilename]

Trailer(hdr) == hdr.Filename = TrailerFilename

Size(hdr) == HeaderSize + Len(hdr.Filename) + 1

-----------------------------------------------------------------------------
(* Strings and paths *)

CharAt(s, i) == SubSeq(s, i, i)

\* strings.TrimPrefix(s, "/")
TrimPrefix(s) ==
    IF Len(s) >= 1 /\ CharAt(s, 1) = "/" THEN SubSeq(s, 2, Len(s)) ELSE s

\* Index of the last "/" of s at or before i, 0 if there is none.
RECURSIVE LastSlash(_, _)
LastSlash(s, i) ==
    IF i = 0 THEN 0
    ELSE IF CharAt(s, i) = "/" THEN i
    ELSE LastSlash(s, i - 1)

\* The components of s[1..i] between slashes, without the empty and "." ones.
RECURSIVE Components(_, _, _)
Components(s, i, cur) ==
    LET keep == IF cur = "" \/ cur = "." THEN <<>> ELSE <<cur>> IN
    IF i > Len(s) THEN keep
    ELSE IF CharAt(s, i) = "/" THEN keep \o Components(s, i + 1, "")
    ELSE Components(s, i + 1, cur \o CharAt(s, i))

RECURSIVE Join(_)
Join(cs) ==
    IF Len(cs) = 0 THEN ""
    ELSE IF Len(cs) = 1 THEN cs[1]
    ELSE cs[1] \o "/" \o Join(Tail(cs))

\* filepath.Clean, for paths without ".." components.
Clean(s) ==
    LET rooted == Len(s) >= 1 /\ CharAt(s, 1) = "/"
        body   == Join(Components(s, 1, ""))
    IN  IF rooted THEN "/" \o body
        ELSE IF body = "" THEN "." ELSE body

\* filepath.Dir
Dir(path) == Clean(SubSeq(path, 1, LastSlash(path, Len(path))))

\* splitBytePrefixAll(s, '/'): ".", every prefix that ends before a slash
\* which is not the first byte, and s itself.
RECURSIVE InnerPrefixes(_, _)
InnerPrefixes(s, j) ==
    IF j > Len(s) THEN <<>>
    ELSE (IF CharAt(s, j) = "/" THEN <<SubSeq(s, 1, j - 1)>> ELSE <<>>)
         \o InnerPrefixes(s, j + 1)

splitBytePrefixAll(s) == <<".">> \o InnerPrefixes(s, 2) \o <<s>>

-----------------------------------------------------------------------------
(* The sink *)

NoHeader == Header("", 0, 0, 0)

\* One call made on a sink.  k: "hdr" (the 110 bytes of a header), "name"
\* (its filename and NUL), "zero" (padding), "data" (payload), "flush",
\* "close"; why: the place in the Writer that made the call; sink: the sink
\* the call was made on, "w" or "cw"; at: the number of bytes the sink had
\* received before; len: the bytes offered; n: the bytes taken.
Chunk(k, why, hdr, auto, bytes) ==
    [k |-> k, why |-> why, hdr |-> hdr, auto |-> auto, bytes |-> bytes,
     sink |-> "", at |-> 0, n |-> 0, len |-> 0]

NoWire ==
    [n |-> 0, outer |-> 0, dirs |-> {}, last |-> "", payAt |-> 0, paySize |-> 0,
     failed |-> FALSE]

\* What the sink knows after receiving the first `acc` bytes of `chunk`.
\* n: bytes received by the current sink; dirs: names of the directory
\* headers received since the last trailer; last: the name of the last header
\* received; payAt, paySize: where the payload of that header begins and the
\* size the header declares; outer: bytes the underlying sink received before
\* compression began; failed: the sink has reported an error.
Observe(w, chunk, acc, len) ==
    LET w1 == [w EXCEPT !.n = w.n + acc, !.failed = @ \/ acc < len] IN
    IF chunk.k = "name" /\ acc = len
    THEN [w1 EXCEPT
            !.dirs = IF Trailer(chunk.hdr) THEN {}
                     ELSE IF ModeDir(chunk.hdr.Mode)
                          THEN w.dirs \cup {chunk.hdr.Filename}
                          ELSE w.dirs,
            !.last = chunk.hdr.Filename,
            !.payAt = w.n + acc + ((4 - ((w.n + acc) % 4)) % 4),
            !.paySize = chunk.hdr.DataSize]
    ELSE w1

\* curW.Write(p) with len(p) = len, of which the sink takes acc bytes.
SinkTake(iw, chunk, len, acc) ==
    [iw EXCEPT
        !.room = IF iw.room < 0 THEN iw.room ELSE iw.room - acc,
        !.wire = Observe(iw.wire, chunk, acc, len),
        !.emit = Append(iw.emit,
                    [chunk EXCEPT !.sink = iw.curW, !.at = iw.wire.n,
                                  !.n = acc, !.len = len]),
        !.n    = acc,
        !.err  = IF acc < len THEN "ErrSink" ELSE "nil"]

\* curW.Write(p) with len(p) = len: the sink takes the bytes it has room for
\* and reports an error if that is not all of them.
SinkWrite(iw, chunk, len) ==
    SinkTake(iw, chunk, len, IF iw.room < 0 THEN len ELSE Min(len, iw.room))

\* A call of Flush or Close on one of the sinks.
SinkCall(iw, what, to) ==
    [iw EXCEPT !.emit = Append(iw.emit,
        [Chunk(what, to, NoHeader, FALSE, <<>>) EXCEPT !.sink = to,
                                                         !.at = iw.wire.n])]

-----------------------------------------------------------------------------
(* Writer: internals *)

Fail(iw, e) == [iw EXCEPT !.err = e, !.n = 0]

\* `if n > 0 { iw.written += int64(n) }`
addWritten(r) == IF r.n > 0 THEN [r EXCEPT !.written = r.written + r.n] ELSE r

\* Writer.write
write(iw, chunk, len) ==
    IF iw.closed THEN Fail(iw, "ErrClosed")
    ELSE addWritten(SinkWrite(iw, chunk, len))

RECURSIVE writePad(_, _, _)

\* Writer.writePad, once iw.write has returned r: `n -= int64(k)`
padMore(r, n, why) ==
    IF r.err # "nil" THEN r ELSE writePad(r, n - r.n, why)

\* Writer.writePad: n zero bytes, at most len(zeroPadding) per write
writePad(iw, n, why) ==
    IF n > 0
    THEN padMore(write(iw, Chunk("zero", why, NoHeader, FALSE, <<>>),
                       Min(n, ZeroPaddingLen)),
                 n, why)
    ELSE [iw EXCEPT !.err = "nil"]

\* alignFill returning the remainder instead of what is missing to `to`.
alignFill_remainder(n, to) == n % to

alignFill(n, to) == IF n % to > 0 THEN to - (n % to) ELSE 0

alignUp(n, to) == n + alignFill(n, to)

\* Writer.writeAlignment
writeAlignment(iw, alignTo, why) ==
    writePad(iw, alignFill(iw.written, alignTo), why)

\* skipFileRemaining that drops the quota without padding.
skipFileRemaining_drop(iw) == [iw EXCEPT !.fileRemaining = 0, !.err = "nil"]

\* Writer.skipFileRemaining
skipFileRemaining(iw) ==
    IF iw.fileRemaining > 0
    THEN [writePad(iw, iw.fileRemaining, "fill") EXCEPT !.fileRemaining = 0]
    ELSE [iw EXCEPT !.err = "nil"]

\* The count Header.WriteTo returns: n0 bytes of text, and the filename if
\* its write r did not fail.
nameWritten(n0, r) ==
    [r EXCEPT !.n = IF r.err # "nil" THEN n0 ELSE n0 + r.n]

\* Header.WriteTo, once text.writeTo has returned r1
textWritten(r1, hdr, auto) ==
    IF r1.err # "nil" THEN r1
    ELSE nameWritten(r1.n,
            SinkWrite(r1, Chunk("name", "header",
                        [hdr EXCEPT !.FilenameSize = Len(hdr.Filename) + 1],
                        auto, <<>>),
                      Len(hdr.Filename) + 1))

\* Header.WriteTo on the current sink: the 110 bytes of text, then the
\* filename and its NUL.  r.n is the count it returns.
HeaderWriteTo(iw, hdr, auto) ==
    textWritten(SinkWrite(iw, Chunk("hdr", "header",
                            [hdr EXCEPT !.FilenameSize = Len(hdr.Filename) + 1],
                            auto, <<>>), HeaderSize),
                hdr, auto)

\* The forced alignment of Writer.writeHeader
forcedAlignment(iw, hdr) ==
    IF iw.headerAlignTo > 0
    THEN writeAlignment(iw, iw.headerAlignTo, "halign")
    ELSE IF iw.dataAlignTo > 0
    THEN IF alignFill(iw.written + Size(hdr), iw.dataAlignTo) % 4 # 0
         THEN Fail(iw, "ErrBadDataAlignment")
         ELSE writePad(iw, alignFill(iw.written + Size(hdr), iw.dataAlignTo),
                       "dalign")
    ELSE [iw EXCEPT !.err = "nil"]

\* wellFormed that leaves Inode as the caller set it.
wellFormed_keepInode(hdr, inode) ==
    [hdr EXCEPT !.Magic = IF @ = "" THEN Magic_070701 ELSE @,
                !.NumLinks = IF @ = 0 THEN 1 ELSE @,
                !.FilenameSize = Len(hdr.Filename) + 1]

\* The header as Writer.writeHeader completes it before writing it.
wellFormed(hdr, inode) ==
    [hdr EXCEPT !.Magic = IF @ = "" THEN Magic_070701 ELSE @,
                !.NumLinks = IF @ = 0 THEN 1 ELSE @,
                !.Inode = IF @ = 0 /\ ~Trailer(hdr) THEN inode ELSE @,
                !.FilenameSize = Len(hdr.Filename) + 1]

\* Writer.writeHeader, once the last writeAlignment(4) has returned s7
afterPad(s7, hdr) ==
    IF s7.err # "nil" THEN s7
    ELSE [s7 EXCEPT !.fileRemaining = hdr.DataSize,
                    !.dataAlignTo = 0,
                    !.headerAlignTo = 0]

\* Writer.writeHeader, once hdr.WriteTo has returned s5
afterHeader(s5, hdr) ==
    IF s5.err # "nil" THEN s5
    ELSE afterPad(writeAlignment([s5 EXCEPT !.written = s5.written + s5.n],
                                 4, "align4"),
                  hdr)

\* Writer.writeHeader, once the forced alignment has returned s4
afterForced(s4, hdr, auto) ==
    IF s4.err # "nil" THEN s4
    ELSE afterHeader(HeaderWriteTo(s4, hdr, auto), hdr)

\* Writer.writeHeader, once the first writeAlignment(4) has returned s3
afterAlign(s3, hdr, auto) ==
    IF s3.err # "nil" THEN s3
    ELSE afterForced(forcedAlignment(s3, hdr), hdr, auto)

\* Writer.writeHeader, once skipFileRemaining has returned s1
afterSkip(s1, hdr, auto) ==
    IF s1.err # "nil" THEN s1
    ELSE afterAlign(
            writeAlignment(
                [s1 EXCEPT !.nextInode =
                    (Max(s1.nextInode, wellFormed(hdr, s1.nextInode).Inode) + 1)
                        % InodeMod],
                4, "align4"),
            wellFormed(hdr, s1.nextInode), auto)

\* Writer.writeHeader
writeHeader(iw, hdr, auto) == afterSkip(skipFileRemaining(iw), hdr, auto)

\* Writer.mkdir
mkdir(iw, path, perm) ==
    IF path = "" THEN [iw EXCEPT !.err = "nil"]
    ELSE IF path \in iw.mkdirs THEN [iw EXCEPT !.err = "nil"]
    ELSE writeHeader([iw EXCEPT !.mkdirs = iw.mkdirs \cup {path}],
                     Header(path, BitOr(Mode_Dir, PermBits(perm)), 0, 0), TRUE)

RECURSIVE mkdirEach(_, _, _)

\* The loop of Writer.MkdirAll, once iw.mkdir has returned r for the first
\* of the prefixes
mkdirNext(r, prefixes, perm) ==
    IF r.err # "nil" THEN r ELSE mkdirEach(r, Tail(prefixes), perm)

\* The loop of Writer.MkdirAll over the prefixes
mkdirEach(iw, prefixes, perm) ==
    IF prefixes = <<>> THEN [iw EXCEPT !.err = "nil"]
    ELSE mkdirNext(mkdir(iw, Head(prefixes), perm), prefixes, perm)

-----------------------------------------------------------------------------
(* Writer: the exported methods.  Each takes the Writer and returns it as   *)
(* the call leaves it, with the error in err and the count in n.            *)

\* A filename as it goes on the wire: one leading slash off, "" becomes ".".
WireName(f) == IF TrimPrefix(f) = "" THEN "." ELSE TrimPrefix(f)

\* Writer.MkdirAll
MkdirAll(iw, path0, perm0) ==
    IF iw.closed THEN Fail(iw, "ErrClosed")
    ELSE IF WireName(path0) \in iw.mkdirs THEN [iw EXCEPT !.err = "nil"]
    ELSE mkdirEach(iw, splitBytePrefixAll(WireName(path0)),
                   IF perm0 = 0 THEN DefaultMkdirPerm ELSE perm0)

\* Writer.WriteHeader: `if hdr.Mode.Dir() { iw.mkdirs[filename] = ... }`
noteDir(iw, hdr) ==
    IF ModeDir(hdr.Mode)
    THEN [iw EXCEPT !.mkdirs = iw.mkdirs \cup {hdr.Filename}]
    ELSE iw

\* parentDirs that adds the parent directories of a trailer too.
parentDirs_trailerToo(iw, hdr) == MkdirAll(iw, Dir(hdr.Filename), 0)

\* parentDirs that keeps the set of emitted directories across a trailer.
parentDirs_keepDirs(iw, hdr) ==
    IF Trailer(hdr)
    THEN [iw EXCEPT !.err = "nil"]
    ELSE MkdirAll(iw, Dir(hdr.Filename), 0)

\* Writer.WriteHeader: `if hdr.Trailer() { clear(iw.mkdirs) } else { ... }`
parentDirs(iw, hdr) ==
    IF Trailer(hdr)
    THEN [iw EXCEPT !.mkdirs = {}, !.err = "nil"]
    ELSE MkdirAll(iw, Dir(hdr.Filename), 0)

\* Writer.WriteHeader, once the parent directories are dealt with
afterParents(s2, hdr) ==
    IF s2.err # "nil" THEN s2 ELSE writeHeader(s2, hdr, FALSE)

\* Writer.WriteHeader, once the filename is trimmed
namedHeader(iw, hdr) == afterParents(parentDirs(noteDir(iw, hdr), hdr), hdr)

\* Writer.WriteHeader
WriteHeader(iw, hdr0) ==
    IF iw.closed THEN Fail(iw, "ErrClosed")
    ELSE namedHeader(iw, [hdr0 EXCEPT !.Filename = WireName(hdr0.Filename)])

\* Writer.WriteTrailer
WriteTrailer(iw) == WriteHeader(iw, trailerHeader)

\* `iw.fileRemaining -= int64(n)` after a write that began with rem left
spend(r, rem) == IF r.n > 0 THEN [r EXCEPT !.fileRemaining = rem - r.n] ELSE r

\* `err = io.EOF` where the write itself reported no error
orEOF(r) == IF r.err = "nil" THEN [r EXCEPT !.err = "EOF"] ELSE r

\* Write that hands the whole buffer to the sink, whatever the quota.
Write_noLimit(iw, buf) ==
    IF iw.closed THEN Fail(iw, "ErrClosed")
    ELSE IF iw.fileRemaining = 0 THEN Fail(iw, "EOF")
    ELSE spend(write(iw, Chunk("data", "Write", NoHeader, FALSE, buf),
                     Len(buf)),
               iw.fileRemaining)

\* Writer.Write
Write(iw, buf) ==
    IF iw.closed THEN Fail(iw, "ErrClosed")
    ELSE IF iw.fileRemaining = 0 THEN Fail(iw, "EOF")
    ELSE IF iw.fileRemaining < Len(buf)
    THEN spend(orEOF(write(iw, Chunk("data", "Write", NoHeader, FALSE,
                                     SubSeq(buf, 1, iw.fileRemaining)),
                           iw.fileRemaining)),
               iw.fileRemaining)
    ELSE spend(write(iw, Chunk("data", "Write", NoHeader, FALSE, buf),
                     Len(buf)),
               iw.fileRemaining)

\* io.CopyN(iw.curW, r, rem) with take = min(len(src), rem) bytes to copy:
\* it reports EOF when r ends before rem bytes.
copyN(iw, src, take, rem) ==
    IF take > 0
    THEN IF take < rem
         THEN orEOF(SinkWrite(iw, Chunk("data", "ReadFrom", NoHeader, FALSE,
                                        SubSeq(src, 1, take)), take))
         ELSE SinkWrite(iw, Chunk("data", "ReadFrom", NoHeader, FALSE,
                                  SubSeq(src, 1, take)), take)
    ELSE [iw EXCEPT !.err = IF take < rem THEN "EOF" ELSE "nil", !.n = 0]

\* ReadFrom that does not look at iw.closed.
ReadFrom_open(iw, src) ==
    IF iw.fileRemaining = 0 THEN Fail(iw, "EOF")
    ELSE spend(addWritten(copyN(iw, src, Min(Len(src), iw.fileRemaining),
                                iw.fileRemaining)),
               iw.fileRemaining)

\* Writer.ReadFrom
ReadFrom(iw, src) ==
    IF iw.closed THEN Fail(iw, "ErrClosed")
    ELSE IF iw.fileRemaining = 0 THEN Fail(iw, "EOF")
    ELSE spend(addWritten(copyN(iw, src, Min(Len(src), iw.fileRemaining),
                                iw.fileRemaining)),
               iw.fileRemaining)

\* The sinks here implement both Flusher and io.Closer; iw.fails holds the
\* calls of Flush and Close that a sink answers with an error.
\* The error of the call `what` on the sink `to`; none where there is no sink.
sinkErr(iw, what, to) ==
    IF to # "nil" /\ <<what, to>> \in iw.fails
    THEN "Err(" \o what \o " " \o to \o ")"
    ELSE "nil"

\* The errors of es that are not nil, one after the other.
RECURSIVE joinedText(_)
joinedText(es) ==
    IF es = <<>> THEN ""
    ELSE IF Head(es) = "nil" THEN joinedText(Tail(es))
    ELSE IF joinedText(Tail(es)) = "" THEN Head(es)
    ELSE Head(es) \o "; " \o joinedText(Tail(es))

\* errors.Join(es...): nil where every error is nil
errorsJoin(es) ==
    IF joinedText(es) = "" THEN "nil" ELSE "Join(" \o joinedText(es) \o ")"

\* Writer.Flush
Flush(iw) ==
    IF iw.closed THEN Fail(iw, "ErrClosed")
    ELSE [SinkCall(IF iw.compW # "nil" THEN SinkCall(iw, "flush", iw.compW)
                   ELSE iw,
                   "flush", "w")
            EXCEPT !.err = errorsJoin(<<sinkErr(iw, "flush", iw.compW),
                                        sinkErr(iw, "flush", "w")>>),
                   !.n = 0]

\* closeSinks that closes no sink once Flush has returned an error.
closeSinks_stopAtError(s1) ==
    IF s1.err # "nil" THEN [s1 EXCEPT !.closed = TRUE, !.n = 0]
    ELSE [SinkCall(IF s1.compW # "nil" THEN SinkCall(s1, "close", s1.compW)
                   ELSE s1,
                   "close", "w")
            EXCEPT !.closed = TRUE,
                   !.err = errorsJoin(<<s1.err,
                                        sinkErr(s1, "close", s1.compW),
                                        sinkErr(s1, "close", "w")>>),
                   !.n = 0]

\* Writer.Close, after the Flush
closeSinks(s1) ==
    [SinkCall(IF s1.compW # "nil" THEN SinkCall(s1, "close", s1.compW) ELSE s1,
              "close", "w")
        EXCEPT !.closed = TRUE,
               !.err = errorsJoin(<<s1.err, sinkErr(s1, "close", s1.compW),
                                    sinkErr(s1, "close", "w")>>),
               !.n = 0]

\* Close that zero-fills the unwritten payload before flushing.
Close_padding(iw) ==
    IF iw.closed THEN Fail(iw, "ErrClosed")
    ELSE closeSinks(Flush(skipFileRemaining(iw)))

\* Writer.Close
Close(iw) ==
    IF iw.closed THEN Fail(iw, "ErrClosed")
    ELSE closeSinks(Flush(iw))

\* Writer.StartCompression, once writeAlignment has returned s2; factoryOk:
\* whether c(iw.curW) returns a writer.  The compression writer takes bytes
\* as its underlying sink does.
compressFrom(s2, factoryOk) ==
    IF s2.err # "nil" THEN s2
    ELSE IF ~factoryOk THEN Fail(s2, "ErrFactory")
    ELSE [s2 EXCEPT !.curW = "cw", !.compW = "cw", !.compressed = TRUE,
                    !.written = 0,
                    !.wire = [NoWire EXCEPT !.outer = s2.wire.n,
                                            !.dirs = s2.wire.dirs,
                                            !.last = s2.wire.last,
                                            !.failed = s2.wire.failed],
                    !.err = "nil"]

\* Writer.StartCompression, once skipFileRemaining has returned s1
alignFrom(s1, factoryOk) ==
    IF s1.err # "nil" THEN s1
    ELSE compressFrom(writeAlignment(s1, StartCompressionAlignment, "calign"),
                      factoryOk)

\* StartCompression that does not look at iw.compressed.
StartCompression_again(iw, factoryOk) ==
    IF iw.closed THEN Fail(iw, "ErrClosed")
    ELSE alignFrom(skipFileRemaining(iw), factoryOk)

\* Writer.StartCompression
StartCompression(iw, factoryOk) ==
    IF iw.closed THEN Fail(iw, "ErrClosed")
    ELSE IF iw.compressed THEN Fail(iw, "ErrAlreadyCompressed")
    ELSE alignFrom(skipFileRemaining(iw), factoryOk)

\* Writer.SetHeaderAlignment
SetHeaderAlignment(iw, alignTo) ==
    IF alignTo % 4 # 0 THEN Fail(iw, "ErrBadAlignment")
    ELSE [iw EXCEPT !.dataAlignTo = 0, !.headerAlignTo = alignTo,
                    !.err = "nil", !.n = 0]

\* Writer.SetDataAlignment
SetDataAlignment(iw, alignTo) ==
    IF alignTo % 4 # 0 THEN Fail(iw, "ErrBadAlignment")
    ELSE [iw EXCEPT !.dataAlignTo = alignTo, !.headerAlignTo = 0,
                    !.err = "nil", !.n = 0]

-----------------------------------------------------------------------------
(* The Writer as a state machine *)

\* The Writer and its sink as one record, before a call.
IW ==
    [closed |-> closed, compressed |-> compressed, curW |-> curW,
     compW |-> compW, mkdirs |-> mkdirs, nextInode |-> nextInode,
     written |-> written, fileRemaining |-> fileRemaining,
     dataAlignTo |-> dataAlignTo, headerAlignTo |-> headerAlignTo,
     wire |-> wire, room |-> room, fails |-> {}, emit |-> <<>>,
     err |-> "nil", n |-> 0]

\* The inode numbers of the headers the sink took whole in the calls e, in
\* the order it received them.  given: the number is the one the caller put
\* in the header passed to WriteHeader, and not one Writer.writeHeader chose.
RECURSIVE Inodes(_, _)
Inodes(e, given) ==
    IF e = <<>> THEN <<>>
    ELSE IF Head(e).k = "hdr" /\ Head(e).n = Head(e).len
    THEN <<[ino |-> Head(e).hdr.Inode,
            name |-> Head(e).hdr.Filename,
            trailer |-> Trailer(Head(e).hdr),
            given |-> given /\ ~Head(e).auto]>> \o Inodes(Tail(e), given)
    ELSE Inodes(Tail(e), given)

\* The call `op` with argument `arg` took IW to r.
Returns(op, arg, r) ==
    /\ nops < MaxOps
    /\ nops' = nops + 1
    /\ inodes' = inodes \o Inodes(r.emit, op = "WriteHeader" /\ arg.Inode # 0)
    /\ closed' = r.closed
    /\ compressed' = r.compressed
    /\ curW' = r.curW
    /\ compW' = r.compW
    /\ mkdirs' = r.mkdirs
    /\ nextInode' = r.nextInode
    /\ written' = r.written
    /\ fileRemaining' = r.fileRemaining
    /\ dataAlignTo' = r.dataAlignTo
    /\ headerAlignTo' = r.headerAlignTo
    /\ wire' = r.wire
    /\ room' = r.room
    /\ call' = [op |-> op, arg |-> arg, err |-> r.err, n |-> r.n,
                emit |-> r.emit, pre |-> IW]
    /\ UNCHANGED <<rvars, fvars>>

\* The inputs of the calls
Headers ==
    {Header("/", Mode_Dir + 493, 0, 0),
     Header("a/b", Mode_Dir + 493, 0, 0),
     Header("/a/b/c", Mode_File + 420, 5, 0),
     Header("a/b/c/d", Mode_File + 420, 5, 0),
     Header(MicrocodePath_GenuineIntel, Mode_File + 436, 5, 0),
     Header("a", Mode_File + 420, 0, 9),
     Header("//e", Mode_File + 420, 0, 0),
     Header(TrailerFilename, 0, 0, 0)}

MkdirArgs == {<<"/a", 0>>, <<"a/b", 493>>, <<"kernel/x86/microcode", 0>>}

Buffers == {<<>>, <<65, 0>>, <<1, 2, 3, 4, 5, 6, 7>>}

HeaderAlignments == {0, 6, MicrocodeDataAlignment}

DataAlignments == {6, MicrocodeDataAlignment}

Rooms == {0 - 1, 100, 250}

\* The calls of Flush and Close that the sinks answer with an error, in
\* one call of Writer.Flush or Writer.Close.
FailSets ==
    {{},
     {<<"flush", "cw">>},
     {<<"flush", "w">>, <<"close", "cw">>},
     {<<"close", "w">>},
     {<<"flush", "cw">>, <<"flush", "w">>, <<"close", "cw">>, <<"close", "w">>}}

NoCall == [op |-> "NewWriter", arg |-> <<>>, err |-> "nil", n |-> 0,
           emit |-> <<>>, pre |-> <<>>]

NoRCall ==
    [op |-> "NewReader", arg |-> <<>>, err |-> "nil", n |-> 0,
     hdr |-> NoHeader, HeaderOffset |-> 0, DataOffset |-> 0, data |-> <<>>,
     isCompressed |-> FALSE, compressType |-> "UnknownLookahead",
     pre |-> <<>>]

\* A stream without a compressed part.  codec: the format of the compressed
\* part; at: where it begins in the stream given to NewReader; first: the
\* number of headers before it; entered: ContinueCompressed has put the
\* Reader on the decompressed bytes.
NoComp == [codec |-> "none", at |-> 0, first |-> 0, entered |-> FALSE]

\* No function and no Mode method has been called.
NoFn == [op |-> "none", arg |-> <<>>, m |-> 0, out |-> <<>>]

\* No Reader call is in progress.
NoRun ==
    [op |-> "none", pc |-> "idle", err |-> "nil", readers |-> <<>>,
     mark |-> 0, pre |-> <<>>, parse |-> <<>>]

\* No caller has begun a call.
\* Two callers at rest, each with a Writer of its own.  global: the package
\* variable trailerHeader; op, pc: the method a caller is in and the
\* statement it will execute next; own: the Header the caller passed;
\* filename: the local variable of WriteHeader; mkdirs, nextInode: fields of
\* the caller's Writer.
NoPar ==
    [global |-> trailerHeader,
     op |-> [c \in {1, 2} |-> "none"],
     pc |-> [c \in {1, 2} |-> 0],
     own |-> [c \in {1, 2} |-> NoHeader],
     filename |-> [c \in {1, 2} |-> ""],
     mkdirs |-> [c \in {1, 2} |-> {}],
     nextInode |-> [c \in {1, 2} |-> 0]]

NoFunctionCalled == curMode = 0 /\ fn = NoFn /\ run = NoRun /\ par = NoPar

\* NewWriter on a sink with room for `r` bytes
NewWriter(r) ==
    [closed |-> FALSE, compressed |-> FALSE, curW |-> "w", compW |-> "nil",
     mkdirs |-> {}, nextInode |-> 0, written |-> 0, fileRemaining |-> 0,
     dataAlignTo |-> 0, headerAlignTo |-> 0, wire |-> NoWire, room |-> r,
     fails |-> {}, emit |-> <<>>, err |-> "nil", n |-> 0]

\* The Writer and its sink are as in iw.
WriterIs(iw) ==
    /\ closed = iw.closed
    /\ compressed = iw.compressed
    /\ curW = iw.curW
    /\ compW = iw.compW
    /\ mkdirs = iw.mkdirs
    /\ nextInode = iw.nextInode
    /\ written = iw.written
    /\ fileRemaining = iw.fileRemaining
    /\ dataAlignTo = iw.dataAlignTo
    /\ headerAlignTo = iw.headerAlignTo
    /\ wire = iw.wire
    /\ room = iw.room

\* NewWriter; no Reader is in use.
Init ==
    /\ \E r \in Rooms : WriterIs(NewWriter(r))
    /\ call = NoCall
    /\ nops = 0
    /\ inodes = <<>>
    /\ input = <<>>
    /\ rpos = 0
    /\ nread = 0
    /\ fileN = 0
    /\ rcall = NoRCall
    /\ expect = <<>>
    /\ entry = 0
    /\ live = TRUE
    /\ got = <<>>
    /\ NoFunctionCalled
    /\ comp = NoComp

DoWriteHeader == \E h \in Headers : Returns("WriteHeader", h, WriteHeader(IW, h))

DoWriteTrailer == Returns("WriteTrailer", trailerHeader, WriteTrailer(IW))

DoMkdirAll ==
    \E a \in MkdirArgs :
        Returns("MkdirAll", a, MkdirAll(IW, a[1], a[2]))

DoWrite == \E b \in Buffers : Returns("Write", b, Write(IW, b))

DoReadFrom == \E b \in Buffers : Returns("ReadFrom", b, ReadFrom(IW, b))

DoSetHeaderAlignment ==
    \E a \in HeaderAlignments :
        Returns("SetHeaderAlignment", a, SetHeaderAlignment(IW, a))

DoSetDataAlignment ==
    \E a \in DataAlignments :
        Returns("SetDataAlignment", a, SetDataAlignment(IW, a))

DoStartCompression ==
    \E ok \in BOOLEAN :
        Returns("StartCompression", ok, StartCompression(IW, ok))

DoFlush ==
    \E f \in FailSets : Returns("Flush", f, Flush([IW EXCEPT !.fails = f]))

DoClose ==
    \E f \in FailSets : Returns("Close", f, Close([IW EXCEPT !.fails = f]))

Next ==
    \/ DoWriteHeader
    \/ DoWriteTrailer
    \/ DoMkdirAll
    \/ DoWrite
    \/ DoReadFrom
    \/ DoSetHeaderAlignment
    \/ DoSetDataAlignment
    \/ DoStartCompression
    \/ DoFlush
    \/ DoClose

Spec == Init /\ [][Next]_vars

-----------------------------------------------------------------------------
(* Bytes of the stream.  A byte is a number in 0..255. *)

Digits == "0123456789"
Upper == "ABCDEFGHIJKLMNOPQRSTUVWXYZ"
Lower == "abcdefghijklmnopqrstuvwxyz"

\* The place of character c in s, 0 if it is not there.
RECURSIVE IndexOf(_, _, _)
IndexOf(c, s, i) ==
    IF i > Len(s) THEN 0
    ELSE IF CharAt(s, i) = c THEN i
    ELSE IndexOf(c, s, i + 1)

\* The byte of a character of a filename (ASCII).
ByteOf(c) ==
    IF IndexOf(c, Digits, 1) > 0 THEN 47 + IndexOf(c, Digits, 1)
    ELSE IF IndexOf(c, Upper, 1) > 0 THEN 64 + IndexOf(c, Upper, 1)
    ELSE IF IndexOf(c, Lower, 1) > 0 THEN 96 + IndexOf(c, Lower, 1)
    ELSE IF c = "!" THEN 33
    ELSE IF c = "-" THEN 45
    ELSE IF c = "." THEN 46
    ELSE IF c = "/" THEN 47
    ELSE IF c = "_" THEN 95
    ELSE 63

\* The character of a byte (ASCII).
CharOf(b) ==
    IF b \in 48..57 THEN CharAt(Digits, b - 47)
    ELSE IF b \in 65..90 THEN CharAt(Upper, b - 64)
    ELSE IF b \in 97..122 THEN CharAt(Lower, b - 96)
    ELSE IF b = 33 THEN "!"
    ELSE IF b = 45 THEN "-"
    ELSE IF b = 46 THEN "."
    ELSE IF b = 47 THEN "/"
    ELSE IF b = 95 THEN "_"
    ELSE "?"

\* []byte(s)
RECURSIVE StringBytes(_)
StringBytes(s) ==
    IF s = "" THEN <<>>
    ELSE <<ByteOf(CharAt(s, 1))>> \o StringBytes(SubSeq(s, 2, Len(s)))

\* string(bs)
RECURSIVE BytesString(_)
BytesString(bs) ==
    IF bs = <<>> THEN ""
    ELSE CharOf(Head(bs)) \o BytesString(Tail(bs))

\* n zero bytes
Zeros(n) == [i \in 1..n |-> 0]

\* bytes.IndexByte(bs, 0), counted from 1; 0 if there is none.
RECURSIVE IndexNul(_, _)
IndexNul(bs, i) ==
    IF i > Len(bs) THEN 0
    ELSE IF bs[i] = 0 THEN i
    ELSE IndexNul(bs, i + 1)

-----------------------------------------------------------------------------
(* Header: the textual form *)

\* nibble2hex that writes a to f in lower case.
nibble2hex_lowercase(nibble) ==
    IF nibble % 16 <= 9 THEN 48 + (nibble % 16) ELSE 97 + (nibble % 16) - 10

\* nibble2hex
nibble2hex(nibble) ==
    IF nibble % 16 <= 9 THEN 48 + (nibble % 16) ELSE 65 + (nibble % 16) - 10

\* hex2nibble; -1 where the Go function returns ok = false.
hex2nibble(h) ==
    IF h \in 48..57 THEN h - 48
    ELSE IF h \in 97..102 THEN h - 97 + 10
    ELSE IF h \in 65..70 THEN h - 65 + 10
    ELSE 0 - 1

\* rawBinaryHeader.setField: the four bytes of v, most significant first.
setField(v) ==
    <<(v \div 16777216) % 256, (v \div 65536) % 256, (v \div 256) % 256,
      v % 256>>

\* rawBinaryHeader.toText
RECURSIVE binToText(_)
binToText(bin) ==
    IF bin = <<>> THEN <<>>
    ELSE <<nibble2hex(Head(bin) \div 16), nibble2hex(Head(bin))>>
            \o binToText(Tail(bin))

\* Header.mtimeUnix
mtimeUnix(hdr) == IF hdr.Mtime < 0 THEN 0 ELSE hdr.Mtime

\* toText that writes Gid in the place of Uid and Uid in the place of Gid.
toText_swapUidGid(hdr) ==
    SubSeq(StringBytes(hdr.Magic) \o binToText(<<0, 0, 0>>), 1, 6)
    \o binToText(setField(hdr.Inode) \o setField(hdr.Mode)
                 \o setField(hdr.Gid) \o setField(hdr.Uid)
                 \o setField(hdr.NumLinks) \o setField(mtimeUnix(hdr))
                 \o setField(hdr.DataSize) \o setField(hdr.Major)
                 \o setField(hdr.Minor) \o setField(hdr.RMajor)
                 \o setField(hdr.RMinor) \o setField(hdr.FilenameSize)
                 \o setField(hdr.Checksum))

\* Header.toText: the thirteen fields in hexadecimal behind the magic, which
\* is copied over the first six characters.
toText(hdr) ==
    SubSeq(StringBytes(hdr.Magic) \o binToText(<<0, 0, 0>>), 1, 6)
    \o binToText(setField(hdr.Inode) \o setField(hdr.Mode)
                 \o setField(hdr.Uid) \o setField(hdr.Gid)
                 \o setField(hdr.NumLinks) \o setField(mtimeUnix(hdr))
                 \o setField(hdr.DataSize) \o setField(hdr.Major)
                 \o setField(hdr.Minor) \o setField(hdr.RMajor)
                 \o setField(hdr.RMinor) \o setField(hdr.FilenameSize)
                 \o setField(hdr.Checksum))

\* hexPair that reports the first character of the pair for either.
hexPair_firstOfPair(hi, lo) ==
    IF hex2nibble(hi) < 0 \/ hex2nibble(lo) < 0 THEN 0 - 1
    ELSE 16 * hex2nibble(hi) + hex2nibble(lo)

\* One byte of rawTextHeader.toBinary; -1 where the first character is
\* invalid, -2 where the first is valid and the second is not.
hexPair(hi, lo) ==
    IF hex2nibble(hi) < 0 THEN 0 - 1
    ELSE IF hex2nibble(lo) < 0 THEN 0 - 2
    ELSE 16 * hex2nibble(hi) + hex2nibble(lo)

\* rawTextHeader.toBinary
toBinary(text) ==
    [i \in 1..(HeaderSize \div 2) |-> hexPair(text[2 * i - 1], text[2 * i])]

\* rawBinaryHeader.magicField
magicField(bin) == bin[1] * 65536 + bin[2] * 256 + bin[3]

\* rawBinaryHeader.field
field(bin, i) ==
    bin[3 + 4 * i + 1] * 16777216 + bin[3 + 4 * i + 2] * 65536
        + bin[3 + 4 * i + 3] * 256 + bin[3 + 4 * i + 4]

\* invalidByteError(k), for the first byte of bin that toBinary could not
\* convert: k is the offset of the character it stopped at.
invalidByteError(bin) ==
    LET i == CHOOSE i \in DOMAIN bin :
                bin[i] < 0 /\ \A j \in 1..(i - 1) : bin[j] >= 0
    IN "InvalidByteError(" \o ToString(2 * (i - 1) - bin[i] - 1) \o ")"

\* Header.fromText, given the binary form: the error, and the header.
fromBinary(bin) ==
    IF \E i \in DOMAIN bin : bin[i] < 0
    THEN [err |-> invalidByteError(bin), hdr |-> NoHeader]
    ELSE IF magicField(bin) \notin {460545, 460546}
    THEN [err |-> "ErrBadHeaderMagic", hdr |-> NoHeader]
    ELSE [err |-> "nil",
          hdr |-> [Magic |-> IF magicField(bin) = 460545
                             THEN Magic_070701 ELSE Magic_070702,
                   Inode |-> field(bin, 0), Mode |-> field(bin, 1),
                   Uid |-> field(bin, 2), Gid |-> field(bin, 3),
                   NumLinks |-> field(bin, 4), Mtime |-> field(bin, 5),
                   DataSize |-> field(bin, 6), Major |-> field(bin, 7),
                   Minor |-> field(bin, 8), RMajor |-> field(bin, 9),
                   RMinor |-> field(bin, 10), FilenameSize |-> field(bin, 11),
                   Checksum |-> field(bin, 12), Filename |-> ""]]

\* Header.fromText
fromText(text) == fromBinary(toBinary(text))

-----------------------------------------------------------------------------
(* Lookahead *)

CpioFileMagic == 12343
GzipMagic1 == 8075
GzipMagic2 == 8094
Bzip2Magic == 16986
LzmaMagic == 23808
XzMagic == 64823
LzoMagic == 35148
Lz4Magic == 545
ZstdMagic == 10421

\* Bytes of the stream the bufio.Reader has not handed out yet.
avail(rd) == Len(rd.in) - rd.pos

\* bufio.Reader.Peek(n), where the stream has n bytes left
Peek(rd, n) == SubSeq(rd.in, rd.pos + 1, rd.pos + n)

\* The Lookahead for the two bytes m that lie ahead, a cpio magic excepted.
sniff(m) ==
    IF m \in {GzipMagic1, GzipMagic2} THEN "Gzip"
    ELSE IF m = Bzip2Magic THEN "Bzip2"
    ELSE IF m = LzmaMagic THEN "Lzma"
    ELSE IF m = XzMagic THEN "Xz"
    ELSE IF m = LzoMagic THEN "Lzo"
    ELSE IF m = Lz4Magic THEN "Lz4"
    ELSE IF m = ZstdMagic THEN "Zstd"
    ELSE "UnknownLookahead"

\* PeekLookahead: the Lookahead, and the error
PeekLookahead(rd) ==
    IF avail(rd) < 2 THEN [la |-> "EOF", err |-> "nil"]
    ELSE IF rd.in[rd.pos + 1] = 0 THEN [la |-> "Padding", err |-> "nil"]
    ELSE IF rd.in[rd.pos + 1] * 256 + rd.in[rd.pos + 2] = CpioFileMagic
    THEN IF avail(rd) < 6 THEN [la |-> "UnknownLookahead", err |-> "EOF"]
         ELSE IF Peek(rd, 6) \in {StringBytes(Magic_070701),
                                  StringBytes(Magic_070702)}
         THEN [la |-> "CpioFile", err |-> "nil"]
         ELSE [la |-> "UnknownLookahead", err |-> "nil"]
    ELSE [la |-> sniff(rd.in[rd.pos + 1] * 256 + rd.in[rd.pos + 2]),
          err |-> "nil"]

\* Lookahead.Compression
Compression(la) ==
    la \in {"Gzip", "Bzip2", "Lzma", "Xz", "Lzo", "Lz4", "Zstd"}

-----------------------------------------------------------------------------
(* Reader.  rd holds the fields of the Go struct and the stream: in, the   *)
(* bytes of the underlying io.Reader; pos, how many of them the            *)
(* bufio.Reader has handed out; fileN, fileR.N; and what the last call     *)
(* returned: err, n, hdr with its two offsets, and the bytes read (data).  *)

ok(rd) == [rd EXCEPT !.err = "nil"]

\* bufio.Reader.Discard(n)
brDiscard(rd, n) ==
    [rd EXCEPT !.pos = rd.pos + Min(n, avail(rd)),
               !.err = IF avail(rd) < n THEN "EOF" ELSE "nil"]

\* Reader.discard, once r.br.Discard has returned r
discarded(r, n) ==
    IF r.err # "nil" THEN r ELSE [r EXCEPT !.nread = r.nread + n]

\* Reader.discard
discard(rd, n) == IF n > 0 THEN discarded(brDiscard(rd, n), n) ELSE ok(rd)

\* The zero bytes at the head of bs.
RECURSIVE leadingZeros(_)
leadingZeros(bs) ==
    IF bs = <<>> THEN 0
    ELSE IF Head(bs) # 0 THEN 0
    ELSE 1 + leadingZeros(Tail(bs))

\* Reader.discardPadding, 64 bytes at a time; the result of discard is
\* not looked at.
RECURSIVE discardPadding(_)
discardPadding(rd) ==
    IF avail(rd) < 64 THEN [rd EXCEPT !.err = "EOF"]
    ELSE IF leadingZeros(Peek(rd, 64)) = 64
    THEN discardPadding(ok(discard(rd, 64)))
    ELSE ok(discard(rd, leadingZeros(Peek(rd, 64))))

\* Reader.discardAlign
discardAlign(rd, n) ==
    IF rd.nread % n > 0 THEN discard(rd, n - (rd.nread % n)) ELSE ok(rd)

\* skipUnreadFile that forgets the unread payload without discarding it.
skipUnreadFile_forget(rd) == ok([rd EXCEPT !.fileN = 0])

\* Reader.skipUnreadFile
skipUnreadFile(rd) ==
    IF rd.fileN > 0
    THEN brDiscard([rd EXCEPT !.fileN = 0], rd.fileN)
    ELSE ok(rd)

RECURSIVE Advance(_)

\* Reader.advanceToNextHeader, once skipUnreadFile or discardPadding has
\* returned r
advanceFrom(r) == IF r.err # "nil" THEN r ELSE Advance(r)

\* The loop of Reader.advanceToNextHeader
Advance(rd) ==
    IF PeekLookahead(rd).err # "nil"
    THEN [rd EXCEPT !.err = PeekLookahead(rd).err]
    ELSE IF Compression(PeekLookahead(rd).la)
    THEN [rd EXCEPT !.err = "ErrCompressedContentAhead"]
    ELSE IF PeekLookahead(rd).la = "EOF" THEN [rd EXCEPT !.err = "EOF"]
    ELSE IF PeekLookahead(rd).la = "Padding"
    THEN advanceFrom(discardPadding(rd))
    ELSE IF PeekLookahead(rd).la = "CpioFile" THEN ok(rd)
    ELSE [rd EXCEPT !.err = "ErrUnknown"]

\* Reader.advanceToNextHeader
advanceToNextHeader(rd) == advanceFrom(skipUnreadFile(rd))

\* io.ReadFull finding fewer bytes than it wants: it takes what is left.
shortRead(rd, n) ==
    [rd EXCEPT !.pos = Len(rd.in),
               !.err = IF avail(rd) = 0 THEN "EOF" ELSE "ErrUnexpectedEOF",
               !.n = n]

\* readFilename that takes all `size` bytes as the filename where none of
\* them is NUL.
readFilename_noNulCheck(rd, h, size) ==
    IF avail(rd) < size THEN shortRead(rd, HeaderSize)
    ELSE [rd EXCEPT !.pos = rd.pos + size, !.err = "nil",
                    !.n = HeaderSize + size,
                    !.hdr = [h EXCEPT !.Filename =
                                BytesString(SubSeq(Peek(rd, size), 1,
                                    IF IndexNul(Peek(rd, size), 1) = 0
                                    THEN size
                                    ELSE IndexNul(Peek(rd, size), 1) - 1))]]

\* Header.ReadFrom, the filename: `size` bytes behind a header text that
\* gave h.
readFilename(rd, h, size) ==
    IF avail(rd) < size THEN shortRead(rd, HeaderSize)
    ELSE IF IndexNul(Peek(rd, size), 1) = 0
    THEN [rd EXCEPT !.pos = rd.pos + size, !.err = "ErrMalformedFilename",
                    !.n = HeaderSize + size]
    ELSE [rd EXCEPT !.pos = rd.pos + size, !.err = "nil",
                    !.n = HeaderSize + size,
                    !.hdr = [h EXCEPT !.Filename =
                                BytesString(SubSeq(Peek(rd, size), 1,
                                    IndexNul(Peek(rd, size), 1) - 1))]]

\* Header.ReadFrom, once the 110 bytes of text are read and converted to t.
readConverted(rd, t) ==
    IF t.err # "nil" THEN [rd EXCEPT !.err = t.err, !.n = HeaderSize]
    ELSE readFilename(rd, t.hdr, t.hdr.FilenameSize)

\* Header.ReadFrom on the bufio.Reader
HeaderReadFrom(rd) ==
    IF avail(rd) < HeaderSize THEN shortRead(rd, 0)
    ELSE readConverted([rd EXCEPT !.pos = rd.pos + HeaderSize],
                       fromText(Peek(rd, HeaderSize)))

\* dataBegins that counts the payload in nread only as it is read.
dataBegins_uncounted(a) ==
    IF a.err # "nil" THEN a
    ELSE [a EXCEPT !.DataOffset = a.nread, !.fileN = a.hdr.DataSize]

\* Reader.next, once discardAlign(4) has returned a
dataBegins(a) ==
    IF a.err # "nil" THEN a
    ELSE [a EXCEPT !.DataOffset = a.nread,
                   !.fileN = a.hdr.DataSize,
                   !.nread = a.nread + a.hdr.DataSize]

\* headerRead that takes a trailer for the end of the stream.
headerRead_trailerEnds(h, headerOffset) ==
    IF h.err # "nil"
    THEN [h EXCEPT !.nread = h.nread + h.n, !.hdr = NoHeader]
    ELSE [dataBegins(discardAlign([h EXCEPT !.nread = h.nread + h.n,
                                            !.HeaderOffset = headerOffset], 4))
            EXCEPT !.pos = IF Trailer(h.hdr) THEN Len(h.in) ELSE @]

\* Reader.next, once hdr.ReadFrom has returned h
headerRead(h, headerOffset) ==
    IF h.err # "nil"
    THEN [h EXCEPT !.nread = h.nread + h.n, !.hdr = NoHeader]
    ELSE dataBegins(discardAlign([h EXCEPT !.nread = h.nread + h.n,
                                           !.HeaderOffset = headerOffset], 4))

\* atHeader that reports the end of the input in place of a trailer.
atHeader_stopAtTrailer(r) ==
    IF r.err # "nil" THEN r
    ELSE IF Trailer(headerRead(HeaderReadFrom(r), r.nread).hdr)
         THEN [headerRead(HeaderReadFrom(r), r.nread)
                  EXCEPT !.err = "EOF", !.hdr = NoHeader]
    ELSE headerRead(HeaderReadFrom(r), r.nread)

\* Reader.next, once advanceToNextHeader has returned r
atHeader(r) ==
    IF r.err # "nil" THEN r ELSE headerRead(HeaderReadFrom(r), r.nread)

\* Reader.next
next(rd) ==
    atHeader(advanceToNextHeader([rd EXCEPT !.hdr = NoHeader, !.n = 0,
                                            !.data = <<>>]))

\* Reader.Read with len(buf) = want, the bufio.Reader handing out k bytes
\* (1 <= k <= min(want, fileR.N), what an io.Reader may do).
Read(rd, want, k) ==
    IF rd.fileN <= 0 THEN [rd EXCEPT !.err = "EOF", !.n = 0, !.data = <<>>]
    ELSE IF Min(want, rd.fileN) = 0
    THEN [rd EXCEPT !.err = "nil", !.n = 0, !.data = <<>>]
    ELSE IF avail(rd) = 0 THEN [rd EXCEPT !.err = "EOF", !.n = 0, !.data = <<>>]
    ELSE [rd EXCEPT !.pos = rd.pos + k, !.fileN = rd.fileN - k,
                    !.err = "nil", !.n = k, !.data = Peek(rd, k)]

\* Reader.WriteTo: io.CopyN of the rest of the payload
ReaderWriteTo(rd) ==
    IF rd.fileN = 0 THEN [rd EXCEPT !.err = "EOF", !.n = 0, !.data = <<>>]
    ELSE [rd EXCEPT !.pos = rd.pos + Min(rd.fileN, avail(rd)),
                    !.fileN = rd.fileN - Min(rd.fileN, avail(rd)),
                    !.n = Min(rd.fileN, avail(rd)),
                    !.data = Peek(rd, Min(rd.fileN, avail(rd))),
                    !.err = IF avail(rd) < rd.fileN THEN "EOF" ELSE "nil"]

-----------------------------------------------------------------------------
(* Compressed data.  The compressors are those of compress/gzip and of the  *)
(* packages the callers bring; the model keeps of them that the output      *)
(* begins with the magic of the format, that runs of equal bytes come out   *)
(* shorter, and that the reader of the format gives the input back.         *)

\* The two bytes the output of a compressor begins with.
MagicBytes(codec) ==
    IF codec = "Gzip" THEN <<GzipMagic1 \div 256, GzipMagic1 % 256>>
    ELSE <<XzMagic \div 256, XzMagic % 256>>

\* The place behind the run of equal bytes that begins at bs[i], a run being
\* at most 255 bytes long.
RunEnd(bs, i) ==
    CHOOSE j \in (i + 1)..(i + 255) :
        /\ \A k \in i..(j - 1) : k <= Len(bs) /\ bs[k] = bs[i]
        /\ j = i + 255 \/ j > Len(bs) \/ bs[j] # bs[i]

\* The runs of bs from place i on, each as its length and its byte.
RECURSIVE Squeeze(_, _)
Squeeze(bs, i) ==
    IF i > Len(bs) THEN <<>>
    ELSE <<RunEnd(bs, i) - i, bs[i]>> \o Squeeze(bs, RunEnd(bs, i))

\* What a CompressWriter such as GzipWriter has sent to its output once bs
\* is written to it and it is closed.
Compressed(codec, bs) == MagicBytes(codec) \o Squeeze(bs, 1)

\* The bytes the runs zs stand for, from place i on.
RECURSIVE Expand(_, _)
Expand(zs, i) ==
    IF i + 1 > Len(zs) THEN <<>>
    ELSE [k \in 1..zs[i] |-> zs[i + 1]] \o Expand(zs, i + 2)

\* CompressReaders, the process-wide map: the formats it has a reader for.
CompressReaders == {"Gzip", "Bzip2"}

\* A CompressReaderMap: nil, or the formats it has a reader for.
ReaderMap(isNil, formats) == [nil |-> isNil, has |-> formats]

\* A CompressReader such as GzipReader on the bufio.Reader: the bytes it
\* gives when read to its end.
decompressed(rd) == Expand(SubSeq(rd.in, rd.pos + 3, Len(rd.in)), 1)

\* Reader.ContinueCompressed, once PeekLookahead has returned la
continueAt(p, la, readers) ==
    IF la.err # "nil" THEN [p EXCEPT !.err = la.err, !.compressType = la.la]
    ELSE IF la.la = "EOF" THEN [p EXCEPT !.err = "EOF", !.compressType = "EOF"]
    ELSE IF ~Compression(la.la)
    THEN [p EXCEPT !.err = "nil", !.compressType = la.la]
    ELSE IF la.la \notin (IF readers.nil THEN CompressReaders ELSE readers.has)
    THEN [p EXCEPT !.err = "ErrNoCompressReader", !.isCompressed = TRUE,
                   !.compressType = la.la]
    ELSE [p EXCEPT !.in = decompressed(p), !.pos = 0, !.nread = 0,
                   !.err = "nil", !.isCompressed = TRUE,
                   !.compressType = la.la]

\* Reader.ContinueCompressed, once discardPadding has returned p
continuePadded(p, readers) ==
    IF p.err # "nil" THEN p ELSE continueAt(p, PeekLookahead(p), readers)

\* Reader.ContinueCompressed, once skipUnreadFile has returned s
continueSkipped(s, readers) ==
    IF s.err # "nil" THEN s ELSE continuePadded(discardPadding(s), readers)

\* Reader.ContinueCompressed
ContinueCompressed(rd, readers) ==
    continueSkipped(skipUnreadFile([rd EXCEPT !.hdr = NoHeader, !.n = 0,
                                              !.data = <<>>]),
                    readers)

-----------------------------------------------------------------------------
(* The streams given to the Reader: what a Writer sends to its sink *)

\* The bytes the sink took in one call.
ChunkBytes(c) ==
    IF c.k = "hdr" THEN SubSeq(toText(c.hdr), 1, c.n)
    ELSE IF c.k = "name"
    THEN SubSeq(StringBytes(c.hdr.Filename) \o <<0>>, 1, c.n)
    ELSE IF c.k = "zero" THEN Zeros(c.n)
    ELSE IF c.k = "data" THEN SubSeq(c.bytes, 1, c.n)
    ELSE <<>>

\* The bytes the sink took in the calls e.
RECURSIVE StreamOf(_)
StreamOf(e) ==
    IF e = <<>> THEN <<>> ELSE ChunkBytes(Head(e)) \o StreamOf(Tail(e))

\* The payload bytes passed to Write in the calls e, up to the next header.
RECURSIVE PayloadOf(_)
PayloadOf(e) ==
    IF e = <<>> THEN <<>>
    ELSE IF Head(e).k = "hdr" THEN <<>>
    ELSE IF Head(e).k = "data"
    THEN SubSeq(Head(e).bytes, 1, Head(e).n) \o PayloadOf(Tail(e))
    ELSE PayloadOf(Tail(e))

\* The headers sent in the calls e, each with the offset it was sent at and
\* the payload written behind it.
RECURSIVE Entries(_)
Entries(e) ==
    IF e = <<>> THEN <<>>
    ELSE IF Head(e).k = "hdr"
    THEN <<[hdr |-> Head(e).hdr, at |-> Head(e).at,
            data |-> PayloadOf(Tail(e))]>> \o Entries(Tail(e))
    ELSE Entries(Tail(e))

\* One call made on a Writer.
Step(iw, o) ==
    IF o[1] = "WriteHeader" THEN WriteHeader(iw, o[2])
    ELSE IF o[1] = "Write" THEN Write(iw, o[2])
    ELSE IF o[1] = "SetHeaderAlignment" THEN SetHeaderAlignment(iw, o[2])
    ELSE WriteTrailer(iw)

RECURSIVE Steps(_, _)
Steps(iw, os) ==
    IF os = <<>> THEN iw ELSE Steps(Step(iw, Head(os)), Tail(os))

\* The calls that make each stream: a payload left unfinished before a
\* trailer; an empty payload, a payload of zeros and of "070", a header
\* aligned to 128 and the stream ending with a payload; two segments, with a
\* header of magic 070702.
Scripts ==
    {<< <<"WriteHeader", Header("a/f", Mode_File + 420, 5, 0)>>,
        <<"Write", <<48, 55, 48>> >>,
        <<"WriteTrailer">> >>,
     << <<"WriteHeader", Header("a", Mode_File + 420, 0, 9)>>,
        <<"WriteHeader", Header("g", Mode_File + 420, 7, 0)>>,
        <<"Write", <<0, 0, 0, 0, 48, 55, 48>> >>,
        <<"SetHeaderAlignment", 128>>,
        <<"WriteHeader", Header("h", Mode_File + 420, 4, 0)>>,
        <<"Write", <<1, 2, 3, 4>> >> >>,
     << <<"WriteHeader",
          [Header("x", Mode_File + 420, 5, 0) EXCEPT
              !.Magic = Magic_070702, !.Mtime = 1700000000, !.Uid = 1000,
              !.Gid = 100, !.NumLinks = 2, !.Major = 8, !.Minor = 1,
              !.RMajor = 4, !.RMinor = 64, !.Checksum = 255]>>,
        <<"Write", <<48, 55, 48, 55, 48>> >>,
        <<"WriteTrailer">>,
        <<"WriteHeader", Header("/y", Mode_Dir + 493, 0, 0)>>,
        <<"WriteHeader", Header("y/z", Mode_File + 420, 1, 0)>>,
        <<"WriteTrailer">> >>}

ReadLens == {0, 1, 3, 8}

-----------------------------------------------------------------------------
(* The Reader as a state machine *)

\* The Reader as one record, before a call.
RD ==
    [in |-> input, pos |-> rpos, nread |-> nread, fileN |-> fileN,
     err |-> "nil", n |-> 0, hdr |-> NoHeader, HeaderOffset |-> 0,
     DataOffset |-> 0, data |-> <<>>, isCompressed |-> FALSE,
     compressType |-> "UnknownLookahead"]

\* The call `op` with argument `arg` took RD to r.
ReaderReturns(op, arg, r) ==
    /\ input' = r.in
    /\ rpos' = r.pos
    /\ nread' = r.nread
    /\ fileN' = r.fileN
    /\ rcall' = [op |-> op, arg |-> arg, err |-> r.err, n |-> r.n,
                 hdr |-> r.hdr, HeaderOffset |-> r.HeaderOffset,
                 DataOffset |-> r.DataOffset, data |-> r.data,
                 isCompressed |-> r.isCompressed,
                 compressType |-> r.compressType,
                 pre |-> [pos |-> rpos, nread |-> nread, fileN |-> fileN,
                          in |-> input, entered |-> comp.entered]]
    /\ entry' = IF op = "Next" /\ r.err = "nil" THEN entry + 1 ELSE entry
    /\ live' = IF op = "Next" THEN r.err = "nil" ELSE live
    /\ got' = IF op = "Next" THEN <<>> ELSE got \o r.data
    /\ comp' = [comp EXCEPT !.entered = @ \/ (r.isCompressed /\ r.err = "nil")]
    /\ UNCHANGED expect
    /\ UNCHANGED <<wvars, fvars>>

\* NewReader on one of the streams
InitR ==
    /\ WriterIs(NewWriter(0 - 1))
    /\ call = NoCall
    /\ nops = 0
    /\ inodes = <<>>
    /\ \E s \in Scripts :
          /\ input = StreamOf(Steps(NewWriter(0 - 1), s).emit)
          /\ expect = Entries(Steps(NewWriter(0 - 1), s).emit)
    /\ rpos = 0
    /\ nread = 0
    /\ fileN = 0
    /\ rcall = NoRCall
    /\ entry = 0
    /\ live = TRUE
    /\ got = <<>>
    /\ NoFunctionCalled
    /\ comp = NoComp

DoNext == ReaderReturns("Next", <<>>, next(RD))

DoRead ==
    \E want \in ReadLens :
        \E k \in 1..Max(1, Min(want, fileN)) :
            ReaderReturns("Read", want, Read(RD, want, k))

DoReaderWriteTo == ReaderReturns("WriteTo", <<>>, ReaderWriteTo(RD))

NextR ==
    \/ DoNext
    \/ DoRead
    \/ DoReaderWriteTo

SpecR == InitR /\ [][NextR]_vars

-----------------------------------------------------------------------------
(* Vocabulary of the properties *)

\* The headers the sink took in the last call, in the order it received them.
EmitHdrs == SelectSeq(call.emit, LAMBDA c : c.k = "hdr" /\ c.n = c.len)

\* The header the last call was asked to write, as the last header chunk.
OwnHdr == EmitHdrs[Len(EmitHdrs)]

\* "." and every proper prefix of p that ends before a slash, p itself excepted.
ParentSet(p) ==
    ({"."} \cup {SubSeq(p, 1, j - 1) :
                    j \in {k \in 2..Len(p) : CharAt(p, k) = "/"}}) \ {p}

ShorterFirst(a, b) == a = "." \/ (b # "." /\ Len(a) < Len(b))

HeaderCall == call.op \in {"WriteHeader", "WriteTrailer"}

TrailerCall == HeaderCall /\ WireName(call.arg.Filename) = TrailerFilename

-----------------------------------------------------------------------------
(* Properties *)

\* C1: as long as the sink has reported no error, every header it receives,
\* the directory headers the Writer adds and the trailers included, starts at
\* a multiple of 4 in the stream; and
\* when WriteHeader or WriteTrailer returns without error, written is a
\* multiple of 4 and the next byte of the stream is the first payload byte,
\* at a multiple of 4.
C1_HeadersAligned ==
    /\ (call.op # "NewWriter" /\ ~call.pre.wire.failed) =>
          \A i \in DOMAIN call.emit :
              (call.emit[i].k = "hdr" /\ call.emit[i].n > 0)
                  => call.emit[i].at % 4 = 0
    /\ (HeaderCall /\ call.err = "nil") =>
          /\ written % 4 = 0
          /\ wire.n % 4 = 0
          /\ wire.n = wire.payAt

\* A header written when the stream stood at an odd offset.
C1_Witness ==
    /\ call.op = "WriteHeader" /\ call.err = "nil"
    /\ call.pre.written % 4 # 0
    /\ call.pre.fileRemaining % 4 # 0
    /\ Len(EmitHdrs) > 1

\* C2 (as claimed): a WriteHeader for a path p other than the trailer that
\* returns no error has sent, before p's own header, one directory header for
\* each of "." and the proper prefixes of p that the stream has not had since
\* the last trailer, shortest first, and for no other path; and no call has
\* the Writer add a directory header for a path the stream already has since
\* the last trailer.
C2_ParentDirsOnce ==
    /\ (call.op = "WriteHeader" /\ call.err = "nil"
            /\ WireName(call.arg.Filename) # TrailerFilename) =>
          LET hs == EmitHdrs
              k  == Len(hs) - 1
          IN  /\ k >= 0
              /\ hs[k + 1].hdr.Filename = WireName(call.arg.Filename)
              /\ ~hs[k + 1].auto
              /\ \A i \in 1..k : hs[i].auto /\ ModeDir(hs[i].hdr.Mode)
              /\ {hs[i].hdr.Filename : i \in 1..k}
                    = ParentSet(hs[k + 1].hdr.Filename) \ call.pre.wire.dirs
              /\ \A i, j \in 1..k :
                    i < j => ShorterFirst(hs[i].hdr.Filename, hs[j].hdr.Filename)
    /\ \A i \in DOMAIN EmitHdrs :
          EmitHdrs[i].auto =>
              /\ EmitHdrs[i].hdr.Filename \notin call.pre.wire.dirs
              /\ \A j \in 1..(i - 1) :
                    EmitHdrs[j].hdr.Filename # EmitHdrs[i].hdr.Filename

\* C3: a trailer write (WriteTrailer, or WriteHeader of a header named
\* TRAILER!!!) on an open Writer leaves the set of emitted directories empty;
\* and a successful WriteHeader of another path p, made when the last header
\* of the stream is a trailer, sends a directory header for "." and for every
\* proper prefix of p before p's own header.
C3_TrailerResetsDirs ==
    /\ (TrailerCall /\ ~call.pre.closed) => mkdirs = {}
    /\ (TrailerCall /\ call.err = "nil") => wire.dirs = {} /\ wire.last = TrailerFilename
    /\ (call.op = "WriteHeader" /\ call.err = "nil"
            /\ WireName(call.arg.Filename) # TrailerFilename
            /\ call.pre.wire.last = TrailerFilename) =>
          LET hs == EmitHdrs
              k  == Len(hs) - 1
          IN  /\ {hs[i].hdr.Filename : i \in 1..k}
                    = ParentSet(WireName(call.arg.Filename))
              /\ \A i \in 1..k : hs[i].auto /\ ModeDir(hs[i].hdr.Mode)
              /\ hs[1].hdr.Filename = "."

\* A file under a/b/c written right after a trailer that followed directories.
C3_Witness ==
    /\ call.op = "WriteHeader" /\ call.err = "nil"
    /\ call.arg.Filename = "a/b/c/d"
    /\ call.pre.wire.last = TrailerFilename
    /\ call.pre.nextInode > 1
    /\ Len(EmitHdrs) = 5

\* A header as the stream carries it.
onWire(hdr) == [hdr EXCEPT !.Mtime = mtimeUnix(hdr)]

\* Where the payload of the i-th header of the stream begins.
DataAt(i) == alignUp(expect[i].at + Size(expect[i].hdr), 4)

\* What a call of Reader.next left, as far as a caller can tell.
Outcome(r) ==
    [err |-> r.err, hdr |-> r.hdr, HeaderOffset |-> r.HeaderOffset,
     DataOffset |-> r.DataOffset, pos |-> r.pos, nread |-> r.nread,
     fileN |-> r.fileN]

\* C4: on a stream a Writer made, a successful Next returns the next header
\* of the stream and leaves exactly its DataSize bytes to read; the bytes
\* read since are the first bytes of its payload and, with those still to
\* read, make DataSize; a Read or WriteTo with nothing left returns 0 and
\* EOF, one with bytes left returns at most those; and whatever number k of
\* the bytes left is read first, the next Next ends as it does after all of
\* them were read: with the following header of the stream, or with EOF
\* behind the last.
C4_PayloadExact ==
    /\ (rcall.op = "Next" /\ rcall.err = "nil") =>
          /\ rcall.hdr = onWire(expect[entry].hdr)
          /\ rcall.HeaderOffset = expect[entry].at
          /\ rcall.DataOffset = DataAt(entry)
          /\ rpos = DataAt(entry)
          /\ fileN = rcall.hdr.DataSize
    /\ (live /\ entry > 0) =>
          /\ Len(got) + fileN = expect[entry].hdr.DataSize
          /\ got = SubSeq(input, DataAt(entry) + 1, DataAt(entry) + Len(got))
    /\ (rcall.op \in {"Read", "WriteTo"} /\ rcall.pre.fileN = 0) =>
          /\ rcall.n = 0 /\ rcall.err = "EOF" /\ rcall.data = <<>>
          /\ rpos = rcall.pre.pos
    /\ (rcall.op \in {"Read", "WriteTo"} /\ rcall.pre.fileN > 0) =>
          /\ rcall.err = "nil"
          /\ rcall.n = Len(rcall.data)
          /\ rcall.n <= rcall.pre.fileN
          /\ fileN = rcall.pre.fileN - rcall.n
          /\ rcall.op = "WriteTo" => fileN = 0
          /\ (rcall.op = "Read" /\ rcall.arg > 0) => rcall.n >= 1
    /\ live =>
          \A k \in 0..fileN :
              /\ Outcome(next(Read(RD, k, k)))
                    = Outcome(next(ReaderWriteTo(RD)))
              /\ IF entry < Len(expect)
                 THEN /\ next(Read(RD, k, k)).err = "nil"
                      /\ next(Read(RD, k, k)).hdr = onWire(expect[entry + 1].hdr)
                      /\ next(Read(RD, k, k)).HeaderOffset = expect[entry + 1].at
                 ELSE next(Read(RD, k, k)).err = "EOF"

\* A Next made when 2 of the 5 bytes of a payload had been read, which
\* returned the trailer.
C4_Witness ==
    /\ rcall.op = "Next" /\ rcall.err = "nil"
    /\ entry > 1
    /\ rcall.pre.fileN = 3
    /\ expect[entry - 1].hdr.DataSize = 5
    /\ rcall.hdr.Filename = TrailerFilename

\* C5: the payload quota.  After a successful WriteHeader(h) the quota is
\* h.DataSize; while a quota is left, the payload bytes the sink has taken
\* plus the quota make the declared DataSize; on an open Writer a Write or
\* ReadFrom made with a quota of 0 (before the first header too) sends nothing
\* and returns EOF, one made with a quota of rem > 0 hands the sink the first
\* min(len, rem) bytes it is given and lowers the quota by the bytes taken,
\* and a Write of more than rem bytes returns EOF.
C5_PayloadQuota ==
    /\ fileRemaining >= 0
    /\ (HeaderCall /\ call.err = "nil") =>
          /\ fileRemaining = call.arg.DataSize
          /\ wire.paySize = call.arg.DataSize
    /\ fileRemaining > 0 =>
          wire.n - wire.payAt + fileRemaining = wire.paySize
    /\ (call.op \in {"Write", "ReadFrom"} /\ ~call.pre.closed) =>
          LET rem  == call.pre.fileRemaining
              len  == Len(call.arg)
              take == Min(len, rem)
          IN  /\ rem = 0 =>
                    /\ call.emit = <<>> /\ call.n = 0 /\ call.err = "EOF"
                    /\ wire = call.pre.wire /\ fileRemaining = 0
              /\ \A i \in DOMAIN call.emit :
                    /\ call.emit[i].k = "data"
                    /\ call.emit[i].len = take
                    /\ call.emit[i].bytes = SubSeq(call.arg, 1, take)
              /\ wire.n = call.pre.wire.n + call.n
              /\ fileRemaining = rem - call.n
              /\ call.n <= take
              /\ call.err # "ErrSink" => call.n = take
              /\ (call.err # "ErrSink" /\ call.op = "Write" /\ len > rem) =>
                    call.err = "EOF"

\* A Write of 7 bytes when 3 of the 5 declared bytes were still missing.
C5_Witness ==
    /\ call.op = "Write" /\ call.err = "EOF"
    /\ Len(call.arg) = 7
    /\ call.pre.fileRemaining = 3
    /\ call.n = 3
    /\ wire.paySize = 5

\* C6: a WriteHeader or WriteTrailer made on an open Writer with a quota of
\* r > 0 left, on a sink that takes the bytes, first sends exactly r zero
\* bytes, which end where the declared payload ends; only padding follows
\* before the next header, which so starts at or after the end of the
\* declared payload.
C6_ZeroFill ==
    (HeaderCall /\ ~call.pre.closed /\ call.pre.fileRemaining > 0
        /\ ~wire.failed) =>
      LET r == call.pre.fileRemaining
          e == call.emit
      IN  /\ Len(e) >= 1
          /\ e[1].k = "zero" /\ e[1].why = "fill"
          /\ e[1].n = r /\ e[1].at = call.pre.wire.n
          /\ e[1].at + r = call.pre.wire.payAt + call.pre.wire.paySize
          /\ \A i \in 2..Len(e) : e[i].why # "fill"
          /\ \A i \in DOMAIN e :
                e[i].k = "hdr" =>
                    /\ e[i].at >= call.pre.wire.payAt + call.pre.wire.paySize
                    /\ \A j \in 1..(i - 1) :
                          e[j].k = "zero" \/ e[j].at >= e[i].at
                          \/ \E h \in 1..(i - 1) : e[h].k = "hdr" /\ h <= j
          /\ call.err = "nil" => Len(EmitHdrs) >= 1

\* A trailer written when 3 of the 5 declared bytes were still missing.
C6_Witness ==
    /\ call.op = "WriteTrailer" /\ call.err = "nil"
    /\ call.pre.fileRemaining = 3
    /\ call.pre.wire.paySize = 5

C8_IntelPayloadAligned ==
    (call.op = "WriteHeader" /\ call.err = "nil"
        /\ call.arg.Filename = MicrocodePath_GenuineIntel
        /\ call.pre.dataAlignTo = MicrocodeDataAlignment) =>
      /\ wire.payAt % MicrocodeDataAlignment = 0
      /\ wire.n = wire.payAt

\* C9 (as claimed): with a data alignment pending, a WriteHeader(h) that the
\* sink does not fail returns BadDataAlignment exactly when
\* 110 + len(h.Filename) + 1 is not a multiple of 4.
C9_BadDataAlignmentIff ==
    (call.op = "WriteHeader" /\ ~call.pre.closed
        /\ call.pre.dataAlignTo > 0 /\ call.pre.headerAlignTo = 0
        /\ call.err \in {"nil", "ErrBadDataAlignment"}) =>
      (call.err = "ErrBadDataAlignment"
          <=> (HeaderSize + Len(WireName(call.arg.Filename)) + 1) % 4 # 0)

\* C10 (as claimed): a successful WriteHeader(h) made with a header alignment
\* of n pending puts the first byte of h's own header at a multiple of n.
C10_HeaderAligned ==
    (call.op = "WriteHeader" /\ call.err = "nil"
        /\ call.pre.headerAlignTo > 0) =>
      OwnHdr.at % call.pre.headerAlignTo = 0

-----------------------------------------------------------------------------
(* Forced alignment after WriteHeader; inode numbers *)

\* C11: when a call of WriteHeader has returned, with or without an error,
\* no forced alignment is pending: headerAlignTo and dataAlignTo are both 0.
C11_AlignmentCleared ==
    call.op = "WriteHeader" => (dataAlignTo = 0 /\ headerAlignTo = 0)

\* The headers received so far, trailers left out.
Numbered == SelectSeq(inodes, LAMBDA e : ~e.trailer)

\* No header passed to WriteHeader so far had an Inode of its own.
NoneGiven == \A i \in 1..Len(inodes) : ~inodes[i].given

\* C12: on a Writer that was only given headers with Inode 0, the inode
\* numbers of the headers the sink received, the directory headers the
\* Writer added included and whatever trailers lie between them, are
\* strictly increasing in the order of the stream.
C12_InodesIncrease ==
    NoneGiven =>
        \A i, j \in 1..Len(Numbered) :
            i < j => Numbered[i].ino < Numbered[j].ino

\* Headers of two calls and an added directory, with a trailer between them.
C12_Witness ==
    /\ NoneGiven
    /\ Len(Numbered) >= 4
    /\ \E k \in 2..(Len(inodes) - 1) : inodes[k].trailer
    /\ \E k \in 1..Len(call.emit) : call.emit[k].k = "hdr" /\ call.emit[k].auto
    /\ call.op = "WriteHeader" /\ call.err = "nil"

\* Headers i and j of the stream lie in one segment: no trailer between them.
SameSegment(i, j) ==
    \A k \in Min(i, j)..Max(i, j) : ~inodes[k].trailer

\* C13: within one segment no inode number chosen by the Writer equals an
\* inode number given by the caller, whichever came first.
C13_NoInodeCollision ==
    \A i, j \in 1..Len(inodes) :
        (SameSegment(i, j) /\ inodes[i].given /\ ~inodes[j].given)
            => inodes[i].ino # inodes[j].ino

-----------------------------------------------------------------------------
(* Streams that begin with NUL bytes *)

\* Numbers of NUL bytes put before a stream.
Prefixes == {0, 1, 2, 4, 6, 64, 68, 512}

\* NewReader on one of the streams with NUL bytes before it; expect holds
\* the headers the stream was made of, at their offsets in the stream
\* without the NUL bytes.
InitP ==
    /\ WriterIs(NewWriter(0 - 1))
    /\ call = NoCall
    /\ nops = 0
    /\ inodes = <<>>
    /\ \E s \in Scripts, n \in Prefixes :
          /\ input = Zeros(n) \o StreamOf(Steps(NewWriter(0 - 1), s).emit)
          /\ expect = Entries(Steps(NewWriter(0 - 1), s).emit)
    /\ rpos = 0
    /\ nread = 0
    /\ fileN = 0
    /\ rcall = NoRCall
    /\ entry = 0
    /\ live = TRUE
    /\ got = <<>>
    /\ NoFunctionCalled
    /\ comp = NoComp

SpecP == InitP /\ [][NextR]_vars

\* C14: whatever number of NUL bytes a stream made by a Writer begins with,
\* repeated Next returns the headers the stream was made of, one after the
\* other, and reports the end of the input behind the last: the headers it
\* returns for the stream without the NUL bytes.
C14_PrefixIgnored ==
    rcall.op = "Next" =>
        IF rcall.err = "nil"
        THEN /\ entry <= Len(expect)
             /\ rcall.hdr = onWire(expect[entry].hdr)
        ELSE /\ entry = Len(expect)
             /\ rcall.err = "EOF"

-----------------------------------------------------------------------------
(* Writing with a Writer, then reading with a Reader *)

\* The fields of a header that a Reader is to return as they were written.
Fields(hdr) ==
    [Mode |-> hdr.Mode, Uid |-> hdr.Uid, Gid |-> hdr.Gid,
     NumLinks |-> hdr.NumLinks, Mtime |-> hdr.Mtime, DataSize |-> hdr.DataSize,
     Major |-> hdr.Major, Minor |-> hdr.Minor, RMajor |-> hdr.RMajor,
     RMinor |-> hdr.RMinor, Filename |-> hdr.Filename]

\* Next returns one header for each header of the stream, in their order,
\* and fails only behind the last; the bytes read behind a header whose
\* payload was written in full are the first bytes of that payload.
ReadsBack ==
    /\ rcall.op = "Next" =>
          IF rcall.err = "nil" THEN entry <= Len(expect)
          ELSE entry = Len(expect) /\ rcall.err = "EOF"
    /\ (live /\ entry > 0 /\ ~Trailer(expect[entry].hdr)
             /\ Len(expect[entry].data) = expect[entry].hdr.DataSize) =>
          /\ got = SubSeq(expect[entry].data, 1, Len(got))
          /\ fileN = 0 => got = expect[entry].data

\* C15: what a Writer wrote, a Reader reads back: for every header written,
\* Next returns a header with the same Mode, Uid, Gid, NumLinks, Mtime in
\* seconds, DataSize, Major, Minor, RMajor, RMinor and Filename (as
\* WriteHeader left them in the header), in the order written, and the bytes
\* read behind it are the payload written.
C15_RoundTripIdentical ==
    /\ ReadsBack
    /\ (rcall.op = "Next" /\ rcall.err = "nil"
            /\ ~Trailer(expect[entry].hdr)) =>
          Fields(rcall.hdr) = Fields(expect[entry].hdr)

\* C15, as amended: the same, but a header written with an Mtime before
\* 1970 is read back with an Mtime of 0 seconds.
C15_RoundTrip ==
    /\ ReadsBack
    /\ (rcall.op = "Next" /\ rcall.err = "nil"
            /\ ~Trailer(expect[entry].hdr)) =>
          Fields(rcall.hdr)
              = [Fields(expect[entry].hdr) EXCEPT
                    !.Mtime = IF @ < 0 THEN 0 ELSE @]

\* The five bytes written behind the header x of magic 070702, which has
\* all its fields set, were read in full.
C15_Witness ==
    /\ live /\ entry > 0
    /\ expect[entry].hdr.Filename = "x"
    /\ expect[entry].hdr.Uid = 1000
    /\ rcall.op \in {"Read", "WriteTo"}
    /\ fileN = 0
    /\ got = <<48, 55, 48, 55, 48>>

-----------------------------------------------------------------------------
(* Header.WriteTo, Header.ReadFrom and PeekLookahead on a bufio.Reader *)

\* The bytes Header.WriteTo sends to a sink that takes them all.
HeaderBytes(hdr) == StreamOf(HeaderWriteTo(NewWriter(0 - 1), hdr, FALSE).emit)

\* Headers passed to Header.WriteTo: all fields set, with a FilenameSize
\* that is not the length of the filename; nothing set but the magic; the
\* trailer; a directory with an Mtime before 1970.
WrittenHeaders ==
    {[Magic |-> Magic_070701, Inode |-> 4, Mode |-> Mode_File + 384,
      Uid |-> 1000, Gid |-> 100, NumLinks |-> 1, Mtime |-> 1700000000,
      DataSize |-> 76166, Major |-> 8, Minor |-> 1, RMajor |-> 4,
      RMinor |-> 64, FilenameSize |-> 99, Checksum |-> 11259375,
      Filename |-> "a/b.c"],
     [Header("", 0, 0, 0) EXCEPT !.Magic = Magic_070702],
     trailerHeader,
     [Header("/dev", Mode_Dir + 493, 0, 2147483647) EXCEPT
        !.Magic = Magic_070702, !.Mtime = 0 - 86400, !.FilenameSize = 3]}

\* bs with the byte at offset k (counted from 0) replaced by b.
Patched(bs, k, b) == [bs EXCEPT ![k + 1] = b]

\* A magic, thirteen fields of eight characters each and what follows.
Vector(magic, fld, rest) ==
    StringBytes(magic) \o StringBytes(fld[1]) \o StringBytes(fld[2])
    \o StringBytes(fld[3]) \o StringBytes(fld[4]) \o StringBytes(fld[5])
    \o StringBytes(fld[6]) \o StringBytes(fld[7]) \o StringBytes(fld[8])
    \o StringBytes(fld[9]) \o StringBytes(fld[10]) \o StringBytes(fld[11])
    \o StringBytes(fld[12]) \o StringBytes(fld[13]) \o rest

ZeroFields == [i \in 1..13 |-> "00000000"]

\* "070701", thirteen times "00000000", "TRAILER!!!" and two NUL bytes.
TrailerVector ==
    Vector(Magic_070701, ZeroFields, StringBytes(TrailerFilename) \o <<0, 0>>)

\* The same with a FilenameSize field of 11.
TrailerVector11 ==
    Vector(Magic_070701, [ZeroFields EXCEPT ![12] = "0000000B"],
           StringBytes(TrailerFilename) \o <<0, 0>>)

\* Header texts that Header.ReadFrom is to refuse: characters that are not
\* hexadecimal digits at several offsets, alone, in pairs and behind a wrong
\* magic; a wrong magic of valid digits; filenames without NUL; a filename
\* cut short; lower-case digits, which it accepts.
BadVectors ==
    {Patched(TrailerVector11, 0, 71),
     Patched(TrailerVector11, 5, 103),
     Patched(TrailerVector11, 6, 47),
     Patched(TrailerVector11, 109, 58),
     Patched(Patched(TrailerVector11, 50, 32), 7, 64),
     Patched(Patched(TrailerVector11, 5, 51), 77, 96),
     Patched(TrailerVector11, 5, 51),
     Patched(TrailerVector11, 1, 56),
     Vector(Magic_070702, [ZeroFields EXCEPT ![12] = "00000003"],
            StringBytes("abcd") \o <<0>>),
     Vector(Magic_070702, [ZeroFields EXCEPT ![12] = "0000000a"],
            StringBytes(TrailerFilename)),
     Vector(Magic_070702, [ZeroFields EXCEPT ![12] = "0000000c"],
            StringBytes(TrailerFilename)),
     Vector(Magic_070701, [ZeroFields EXCEPT ![1] = "7fffffff",
                                             ![12] = "00000002"],
            StringBytes("a") \o <<0>>)}

\* What may lie ahead of PeekLookahead: nothing, one byte, NUL bytes, the
\* beginnings of a cpio header, the magic of each compression, other bytes.
Aheads ==
    {<<>>, <<0>>, <<48>>, <<31>>, <<0, 0>>, <<0, 48>>, <<0, 31, 139>>,
     StringBytes("07"), StringBytes("070"), StringBytes("0707"),
     StringBytes("07070"), StringBytes(Magic_070701),
     StringBytes(Magic_070702), StringBytes("070703"), StringBytes("0770701"),
     <<31, 139>>, <<31, 158>>, <<66, 90>>, <<93, 0>>, <<253, 55>>,
     <<137, 76>>, <<2, 33>>, <<40, 181>>, <<31, 139, 8>>, <<40, 181, 47, 253>>,
     <<1, 2>>, <<139, 31>>, <<55, 48>>, <<48, 0>>}

\* PeekLookahead on the bufio.Reader: the reader as the call leaves it, with
\* the error returned.
lookedAhead_consuming(rd) ==
    [rd EXCEPT !.pos = rd.pos + Min(2, avail(rd)),
               !.err = PeekLookahead(rd).err, !.n = 0,
               !.hdr = NoHeader, !.data = <<>>]

lookedAhead(rd) ==
    [rd EXCEPT !.err = PeekLookahead(rd).err, !.n = 0, !.hdr = NoHeader,
               !.data = <<>>]

\* Header.ReadFrom on the bufio.Reader, which is no call of the Reader:
\* nread and fileR stay as they are.
parsed(rd) == HeaderReadFrom([rd EXCEPT !.hdr = NoHeader, !.data = <<>>])

\* A bufio.Reader on the bytes of a header written by Header.WriteTo, on a
\* header text or on a short input; expect holds the header written.
InitB ==
    /\ WriterIs(NewWriter(0 - 1))
    /\ call = NoCall
    /\ nops = 0
    /\ inodes = <<>>
    /\ \/ \E h \in WrittenHeaders :
             /\ input = HeaderBytes(h)
             /\ expect = <<[hdr |-> h, at |-> 0, data |-> <<>>]>>
       \/ /\ input \in {TrailerVector, TrailerVector11} \cup BadVectors
                           \cup Aheads
          /\ expect = <<>>
    /\ rpos = 0
    /\ nread = 0
    /\ fileN = 0
    /\ rcall = NoRCall
    /\ entry = 0
    /\ live = TRUE
    /\ got = <<>>
    /\ NoFunctionCalled
    /\ comp = NoComp

DoPeekLookahead ==
    ReaderReturns("PeekLookahead", PeekLookahead(RD).la, lookedAhead(RD))

DoHeaderReadFrom == ReaderReturns("HeaderReadFrom", <<>>, parsed(RD))

\* The caller takes one byte from the bufio.Reader.
DoDiscard ==
    /\ avail(RD) > 0
    /\ ReaderReturns("Discard", 1, brDiscard([RD EXCEPT !.n = 1], 1))

NextB ==
    \/ DoPeekLookahead
    \/ DoHeaderReadFrom
    \/ DoDiscard

SpecB == InitB /\ [][NextB]_vars

-----------------------------------------------------------------------------
(* Properties of Header.WriteTo, Header.ReadFrom and PeekLookahead *)

\* The bytes that lay ahead in the bufio.Reader when the last call was made.
Ahead == SubSeq(input, rcall.pre.pos + 1, Len(input))

\* The last call was Header.ReadFrom.
Parsed == rcall.op = "HeaderReadFrom"

\* The digits 0-9 and A-F; with a-f, the characters that are hexadecimal
\* digits.
UpperHex == (48..57) \cup (65..70)
AnyHex == UpperHex \cup (97..102)

\* v in eight upper-case hexadecimal digits.
Hex8(v) ==
    [i \in 1..8 |->
        ByteOf(CharAt("0123456789ABCDEF", ((v \div (16 ^ (8 - i))) % 16) + 1))]

\* bs begins with the bytes of p.
Begins(bs, p) == Len(bs) >= Len(p) /\ SubSeq(bs, 1, Len(p)) = p

\* C16: Header.WriteTo and Header.ReadFrom are a round trip.  For a header
\* of magic 070701 or 070702, WriteTo sends 110 upper-case hexadecimal
\* digits, the filename and one NUL byte; the FilenameSize field sent is
\* len(Filename) + 1 whatever FilenameSize the header had; and ReadFrom on
\* these bytes reads them all and returns the magic, the thirteen numbers and
\* the filename written, a negative Mtime as 0.
C16_HeaderRoundTrip ==
    expect # <<>> =>
        /\ Len(input) = HeaderSize + Len(expect[1].hdr.Filename) + 1
        /\ \A i \in 1..HeaderSize : input[i] \in UpperHex
        /\ SubSeq(input, HeaderSize + 1, Len(input))
              = StringBytes(expect[1].hdr.Filename) \o <<0>>
        /\ SubSeq(input, 95, 102) = Hex8(Len(expect[1].hdr.Filename) + 1)
        /\ (Parsed /\ rcall.pre.pos = 0) =>
              /\ rcall.err = "nil"
              /\ rcall.n = Len(input)
              /\ rpos = Len(input)
              /\ rcall.hdr =
                    [expect[1].hdr EXCEPT
                        !.FilenameSize = Len(expect[1].hdr.Filename) + 1,
                        !.Mtime = IF @ < 0 THEN 0 ELSE @]

\* The header /dev, written with an Mtime before 1970 and a FilenameSize
\* of 3, was read back.
C16_Witness ==
    /\ expect # <<>>
    /\ expect[1].hdr.Mtime < 0 /\ expect[1].hdr.FilenameSize = 3
    /\ Parsed /\ rcall.pre.pos = 0
    /\ rcall.hdr.Filename = "/dev" /\ rcall.hdr.FilenameSize = 5
    /\ rcall.hdr.Mtime = 0 /\ rcall.hdr.Inode = 2147483647

\* A header of magic 070701 with the filename TRAILER!!! and every number 0
\* but FilenameSize.
ZeroTrailer(size) ==
    [Header(TrailerFilename, 0, 0, 0) EXCEPT
        !.Magic = Magic_070701, !.Mtime = 0, !.FilenameSize = size]

\* C17: Header.ReadFrom on "070701", thirteen fields "00000000",
\* "TRAILER!!!" and two NUL bytes returns no error and a trailer header
\* with the filename TRAILER!!! and every number 0.
C17_VectorParses ==
    (Parsed /\ rcall.pre.pos = 0 /\ input = TrailerVector) =>
        /\ rcall.err = "nil"
        /\ rcall.hdr = ZeroTrailer(0)

\* C17, as amended: on that vector, whose FilenameSize field is 0,
\* Header.ReadFrom reads the 110 bytes and fails with ErrMalformedFilename;
\* on the vector with a FilenameSize field of 0000000B it returns a trailer
\* header with the filename TRAILER!!!, FilenameSize 11 and every other
\* number 0.
C17_VectorMalformed ==
    /\ (Parsed /\ rcall.pre.pos = 0 /\ input = TrailerVector) =>
          /\ rcall.err = "ErrMalformedFilename"
          /\ rcall.n = HeaderSize /\ rpos = HeaderSize
    /\ (Parsed /\ rcall.pre.pos = 0 /\ input = TrailerVector11) =>
          /\ rcall.err = "nil"
          /\ rcall.hdr = ZeroTrailer(11)
          /\ Trailer(rcall.hdr)
          /\ rcall.n = HeaderSize + 11 /\ rpos = HeaderSize + 11

\* Header.ReadFrom was called on the vector with a FilenameSize field of 0
\* and refused it.
C17_Witness ==
    /\ Parsed /\ rcall.pre.pos = 0 /\ input = TrailerVector
    /\ rcall.err # "nil"

\* The offsets, counted from 0, of the characters of the header text ahead
\* that are no hexadecimal digits.
NonHex == {k \in 0..(HeaderSize - 1) : Ahead[k + 1] \notin AnyHex}

\* The least of a set of numbers.
Least(S) == CHOOSE k \in S : \A j \in S : k <= j

\* The FilenameSize field of the header text ahead.
SizeAhead == field(toBinary(SubSeq(Ahead, 1, HeaderSize)), 11)

\* C18: Header.ReadFrom, with the 110 bytes of a header text ahead, fails
\* with InvalidByteError(k) if a character of the text is no hexadecimal
\* digit, k being the least offset of such a character, also when the magic
\* is wrong; otherwise with ErrBadHeaderMagic if the magic is neither 070701
\* nor 070702; otherwise with ErrMalformedFilename if the FilenameSize bytes
\* that follow, which may be none, hold no NUL.
C18_ErrorOrder ==
    (Parsed /\ Len(Ahead) >= HeaderSize) =>
        IF NonHex # {}
        THEN rcall.err = "InvalidByteError(" \o ToString(Least(NonHex)) \o ")"
        ELSE IF ~Begins(Ahead, StringBytes(Magic_070701))
                /\ ~Begins(Ahead, StringBytes(Magic_070702))
        THEN rcall.err = "ErrBadHeaderMagic"
        ELSE (/\ Len(Ahead) >= HeaderSize + SizeAhead
              /\ \A i \in 1..SizeAhead : Ahead[HeaderSize + i] # 0)
                => rcall.err = "ErrMalformedFilename"

\* A text with the magic 070703 and, at offset 77, a character that is no
\* digit: Header.ReadFrom reported the character.
C18_Witness ==
    /\ Parsed /\ rcall.pre.pos = 0
    /\ Len(Ahead) >= HeaderSize
    /\ Begins(Ahead, StringBytes("070703"))
    /\ NonHex = {77}
    /\ rcall.err = "InvalidByteError(77)"

\* The last call was PeekLookahead, and it returned the tag la.
Looked(la) == rcall.op = "PeekLookahead" /\ rcall.arg = la

\* C19: PeekLookahead consumes nothing: the bytes ahead after the call are
\* the bytes ahead before it.  It returns EOF when the input is exhausted
\* (fewer than the two bytes it looks at are left), Padding when the first
\* byte is 0, CpioFile for 070701 and 070702, Gzip for 1F 8B and 1F 9E,
\* Bzip2 for 42 5A, Lzma for 5D 00, Xz for FD 37, Lzo for 89 4C, Lz4 for
\* 02 21 and Zstd for 28 B5.
C19_Lookahead ==
    rcall.op = "PeekLookahead" =>
        /\ rpos = rcall.pre.pos
        /\ Peek(RD, avail(RD)) = Ahead
        /\ Len(Ahead) < 2 => Looked("EOF")
        /\ (Len(Ahead) >= 2 /\ Ahead[1] = 0) => Looked("Padding")
        /\ Begins(Ahead, StringBytes(Magic_070701)) => Looked("CpioFile")
        /\ Begins(Ahead, StringBytes(Magic_070702)) => Looked("CpioFile")
        /\ Begins(Ahead, <<31, 139>>) => Looked("Gzip")
        /\ Begins(Ahead, <<31, 158>>) => Looked("Gzip")
        /\ Begins(Ahead, <<66, 90>>) => Looked("Bzip2")
        /\ Begins(Ahead, <<93, 0>>) => Looked("Lzma")
        /\ Begins(Ahead, <<253, 55>>) => Looked("Xz")
        /\ Begins(Ahead, <<137, 76>>) => Looked("Lzo")
        /\ Begins(Ahead, <<2, 33>>) => Looked("Lz4")
        /\ Begins(Ahead, <<40, 181>>) => Looked("Zstd")

\* PeekLookahead found the magic of gzip behind a byte the caller had taken,
\* and left it where it was.
C19_Witness ==
    /\ Looked("Gzip")
    /\ input = <<0, 31, 139>>
    /\ rcall.pre.pos = 1 /\ rpos = 1

\* C20: PeekLookahead returns no error when the input does nothing but end:
\* the end of the input shows in the tag.
C20_NoEOFError ==
    rcall.op = "PeekLookahead" => rcall.err = "nil"

-----------------------------------------------------------------------------
(* Streams with a compressed part: a Writer writes an archive, calls        *)
(* StartCompression and writes a second archive; the Reader is given what   *)
(* the underlying sink has received once the Writer is closed.              *)

\* The calls that make each stream, before (A) and after (B) the call of
\* StartCompression: two archives of several headers; a second archive that
\* holds a trailer and nothing else; a format CompressReaders has no reader
\* for; a stream that is compressed from its first byte.
ZScripts ==
    {[A |-> << <<"WriteHeader", Header("a/f", Mode_File + 420, 5, 0)>>,
               <<"Write", <<48, 55, 48>> >>,
               <<"WriteTrailer">> >>,
      codec |-> "Gzip",
      B |-> << <<"WriteHeader", Header("/y", Mode_Dir + 493, 0, 0)>>,
               <<"WriteHeader", Header("y/z", Mode_File + 420, 3, 0)>>,
               <<"Write", <<31, 139, 0>> >>,
               <<"WriteTrailer">> >>],
     [A |-> << <<"WriteHeader", Header("a", Mode_File + 420, 20, 0)>>,
               <<"WriteTrailer">> >>,
      codec |-> "Gzip",
      B |-> << <<"WriteTrailer">> >>],
     [A |-> << <<"WriteHeader", Header("a", Mode_File + 420, 0, 0)>> >>,
      codec |-> "Xz",
      B |-> << <<"WriteHeader", Header("b", Mode_File + 420, 4, 0)>>,
               <<"Write", <<1, 2, 3, 4>> >>,
               <<"WriteTrailer">> >>],
     [A |-> <<>>,
      codec |-> "Gzip",
      B |-> << <<"WriteTrailer">> >>]}

\* The Writer once the calls s.A and StartCompression are made.
OuterOf(s) == StartCompression(Steps(NewWriter(0 - 1), s.A), TRUE)

\* The Writer once the calls s.B are made too; emit holds what the
\* compression writer has received.
InnerOf(s) == Steps([OuterOf(s) EXCEPT !.emit = <<>>], s.B)

\* The maps passed to ContinueCompressed.
ReaderMaps ==
    {ReaderMap(TRUE, {}), ReaderMap(FALSE, {}), ReaderMap(FALSE, {"Gzip", "Xz"})}

\* NewReader on one of the streams, with or without a compressed part.
InitC ==
    /\ WriterIs(NewWriter(0 - 1))
    /\ call = NoCall
    /\ nops = 0
    /\ inodes = <<>>
    /\ \/ \E s \in Scripts :
             /\ input = StreamOf(Steps(NewWriter(0 - 1), s).emit)
             /\ expect = Entries(Steps(NewWriter(0 - 1), s).emit)
             /\ comp = NoComp
       \/ \E s \in ZScripts :
             /\ input = StreamOf(OuterOf(s).emit)
                            \o Compressed(s.codec, StreamOf(InnerOf(s).emit))
             /\ expect = Entries(OuterOf(s).emit) \o Entries(InnerOf(s).emit)
             /\ comp = [codec |-> s.codec,
                        at |-> Len(StreamOf(OuterOf(s).emit)),
                        first |-> Len(Entries(OuterOf(s).emit)),
                        entered |-> FALSE]
    /\ rpos = 0
    /\ nread = 0
    /\ fileN = 0
    /\ rcall = NoRCall
    /\ entry = 0
    /\ live = TRUE
    /\ got = <<>>
    /\ NoFunctionCalled

DoContinueCompressed ==
    \E m \in ReaderMaps :
        ReaderReturns("ContinueCompressed", m, ContinueCompressed(RD, m))

NextC ==
    \/ DoNext
    \/ DoRead
    \/ DoReaderWriteTo
    \/ DoContinueCompressed

SpecC == InitC /\ [][NextC]_vars

-----------------------------------------------------------------------------
(* Properties of the Reader on streams with a compressed part *)

\* The last call was Next and it returned the header the stream holds at
\* the place `entry`.
NextInOrder ==
    /\ entry <= Len(expect)
    /\ rcall.hdr.Filename = expect[entry].hdr.Filename
    /\ rcall.hdr.DataSize = expect[entry].hdr.DataSize
    /\ rcall.HeaderOffset = expect[entry].at

\* C21: on a stream made of an archive A, zero padding and a compressed
\* archive B, Next returns the headers of A in order and then fails with
\* ErrCompressedContentAhead, having consumed nothing of the compressed
\* data; ContinueCompressed with a map that has the format then returns
\* (true, format, nil), and Next goes on to return the headers of B in order.
C21_CompressedAhead ==
    comp.codec # "none" =>
        /\ (rcall.op = "Next" /\ live) => NextInOrder
        /\ (rcall.op = "Next" /\ ~live /\ ~comp.entered) =>
              /\ entry = comp.first
              /\ rcall.err = "ErrCompressedContentAhead"
              /\ rpos = comp.at
        /\ (rcall.op = "Next" /\ ~live /\ comp.entered) =>
              entry = Len(expect)
        /\ (/\ rcall.op = "ContinueCompressed"
            /\ ~live /\ entry = comp.first /\ ~rcall.pre.entered
            /\ comp.codec \in rcall.arg.has) =>
              /\ rcall.isCompressed
              /\ rcall.compressType = comp.codec
              /\ rcall.err = "nil"
              /\ comp.entered

\* The bytes that lay ahead of the Reader before the last call, behind the
\* payload it had not read.
BehindPayload ==
    SubSeq(rcall.pre.in, rcall.pre.pos + rcall.pre.fileN + 1,
           Len(rcall.pre.in))

\* Before the last call nothing but NUL bytes lay ahead.
Exhausted == \A i \in 1..Len(BehindPayload) : BehindPayload[i] = 0

\* Before the last call a cpio header lay ahead.
HeaderAhead ==
    /\ rcall.pre.fileN = 0
    /\ Len(BehindPayload) >= 6
    /\ SubSeq(BehindPayload, 1, 6) \in
          {StringBytes(Magic_070701), StringBytes(Magic_070702)}

\* The last call was ContinueCompressed and returned (is, la, err).
Continued(is, la, err) ==
    /\ rcall.isCompressed = is
    /\ rcall.compressType = la
    /\ rcall.err = err

\* C22: ContinueCompressed returns (false, EOF, io.EOF) when the input is
\* exhausted, trailing padding apart, and (false, CpioFile, nil) when a cpio
\* header lies ahead, which it leaves unread.
C22_ContinueAtEnd ==
    rcall.op = "ContinueCompressed" =>
        /\ Exhausted => Continued(FALSE, "EOF", "EOF")
        /\ HeaderAhead => Continued(FALSE, "CpioFile", "nil")
                            /\ rpos = rcall.pre.pos
                            /\ input = rcall.pre.in

\* Before the last call the Reader stood at the first byte of the
\* compressed data, with no payload left to skip.
CompressedAhead ==
    /\ comp.codec # "none"
    /\ ~rcall.pre.entered
    /\ rcall.pre.pos = comp.at
    /\ rcall.pre.fileN = 0

\* The last call has left the Reader as it was.
ReaderUntouched ==
    /\ input = rcall.pre.in
    /\ rpos = rcall.pre.pos
    /\ nread = rcall.pre.nread
    /\ ~comp.entered

\* C23: at compressed data of a format the given map has no reader for,
\* ContinueCompressed fails with ErrNoCompressReader and leaves the Reader
\* as it was, the magic unread, so that a call with a map that has the format
\* succeeds; a nil map stands for CompressReaders.
C23_NoCompressReader ==
    (rcall.op = "ContinueCompressed" /\ CompressedAhead) =>
        IF comp.codec \in (IF rcall.arg.nil THEN CompressReaders
                           ELSE rcall.arg.has)
        THEN Continued(TRUE, comp.codec, "nil") /\ comp.entered
        ELSE Continued(TRUE, comp.codec, "ErrNoCompressReader")
                /\ ReaderUntouched

\* The number of headers Next had returned before the last call.
EntryBefore == IF rcall.op = "Next" /\ live THEN entry - 1 ELSE entry

\* Before the last call the last header returned was a trailer that is not
\* the last header of the stream: the Reader stood between two segments.
BetweenSegments ==
    /\ EntryBefore >= 1
    /\ EntryBefore < Len(expect)
    /\ Trailer(expect[EntryBefore].hdr)

\* C24 as stated: on a stream of two segments, each ending with its trailer,
\* Next returns the first header of the second segment only once
\* ContinueCompressed has returned (false, EOF, io.EOF), or (true, format,
\* nil), behind the first trailer.
C24_SegmentsEndInput ==
    [][(/\ rcall'.op = "Next" /\ rcall'.err = "nil"
        /\ entry >= 1 /\ Trailer(expect[entry].hdr))
       => /\ rcall.op = "ContinueCompressed"
          /\ \/ Continued(FALSE, "EOF", "EOF")
             \/ Continued(TRUE, comp.codec, "nil")]_vars

\* C24, amended: on a stream of two segments that the Writer has not
\* compressed, the Reader returns the trailer of the first segment as a
\* header and the next Next returns the first header of the second segment;
\* between the two, ContinueCompressed returns (false, CpioFile, nil) and
\* leaves that header unread; Next fails only behind the last header.
C24_SegmentsInline ==
    comp.codec = "none" =>
        /\ (rcall.op = "Next" /\ BetweenSegments) => live /\ NextInOrder
        /\ (rcall.op = "ContinueCompressed" /\ BetweenSegments) =>
              /\ Continued(FALSE, "CpioFile", "nil")
              /\ SubSeq(input, rpos + 1, rpos + 6) = StringBytes(Magic_070701)
        /\ (rcall.op = "Next" /\ ~live) =>
              entry = Len(expect) /\ rcall.err = "EOF"

\* Next has returned the first header of a second segment, which began
\* where the Reader stood.
C24_Witness ==
    /\ comp.codec = "none"
    /\ rcall.op = "Next" /\ BetweenSegments /\ live
    /\ rcall.hdr.Filename = "."
    /\ rcall.HeaderOffset > 0
    /\ rcall.pre.pos = rcall.HeaderOffset

-----------------------------------------------------------------------------
(* Properties of StartCompression, Flush and Close *)

\* The bytes the sink took in those of the calls e that `why` made.
RECURSIVE Taken(_, _)
Taken(e, why) ==
    IF e = <<>> THEN 0
    ELSE (IF Head(e).why = why THEN Head(e).n ELSE 0) + Taken(Tail(e), why)

\* The last call wrote to the sink `to` and to no other.
WroteOnlyTo(to) ==
    \A i \in DOMAIN call.emit :
        call.emit[i].k \in {"hdr", "name", "zero", "data"}
            => call.emit[i].sink = to

\* C25: a StartCompression that returns no error has sent zeros for the
\* unwritten payload and then padding to the underlying sink, which has
\* received a multiple of 512 bytes in all; the compression writer is the
\* current sink and written is 0.  Every later call writes to the
\* compression writer only, where headers start at multiples of 4 counted
\* from its first byte.
C25_StartCompression ==
    /\ (call.op = "StartCompression" /\ call.err = "nil") =>
          /\ Taken(call.emit, "fill") = call.pre.fileRemaining
          /\ \A i, j \in DOMAIN call.emit :
                (call.emit[i].why = "calign" /\ call.emit[j].why = "fill")
                    => j < i
          /\ WroteOnlyTo("w")
          /\ wire.outer % StartCompressionAlignment = 0
          /\ curW = "cw" /\ compW = "cw" /\ compressed
          /\ written = 0 /\ wire.n = 0 /\ fileRemaining = 0
    /\ (call.op # "NewWriter" /\ call.pre.compressed) =>
          /\ WroteOnlyTo("cw")
          /\ ~call.pre.wire.failed =>
                \A i \in DOMAIN call.emit :
                    (call.emit[i].k = "hdr" /\ call.emit[i].n > 0)
                        => call.emit[i].at % 4 = 0

\* The factory passed to the last call, a StartCompression on an open
\* Writer that was not compressing, returned an error.
FactoryFailed ==
    /\ call.op = "StartCompression" /\ ~call.arg
    /\ ~call.pre.closed /\ ~call.pre.compressed

\* What both readings of C26 say of a factory that returns an error: the
\* call fails, the Writer is not compressing and its sink is the one it had.
FactoryErrorKept ==
    FactoryFailed =>
        /\ call.err \in {"ErrFactory", "ErrSink"}
        /\ ~compressed /\ curW = call.pre.curW /\ compW = call.pre.compW

\* C26 as stated: once a StartCompression has succeeded, every later one
\* fails with ErrAlreadyCompressed, writes nothing and changes nothing.
C26_AlreadyCompressed ==
    /\ (call.op = "StartCompression" /\ call.pre.compressed) =>
          /\ call.err = "ErrAlreadyCompressed"
          /\ call.emit = <<>>
          /\ WriterIs(call.pre)
    /\ FactoryErrorKept

\* C26, amended: once a StartCompression has succeeded the Writer stays
\* compressing, and every later StartCompression fails, with
\* ErrAlreadyCompressed on an open Writer and with os.ErrClosed on a closed
\* one, writes nothing and changes nothing; a call whose factory returns an
\* error leaves the Writer not compressing, with the sink it had.
C26_StartsOnce ==
    /\ (call.op # "NewWriter" /\ call.pre.compressed) => compressed
    /\ (call.op = "StartCompression" /\ call.pre.compressed) =>
          /\ call.err = IF call.pre.closed THEN "ErrClosed"
                        ELSE "ErrAlreadyCompressed"
          /\ call.emit = <<>>
          /\ WriterIs(call.pre)
    /\ FactoryErrorKept

\* A second StartCompression on an open Writer that had payload to fill.
C26_Witness ==
    /\ call.op = "StartCompression" /\ call.arg
    /\ call.pre.compressed /\ ~call.pre.closed
    /\ call.pre.fileRemaining > 0
    /\ call.err = "ErrAlreadyCompressed"

\* The calls of Flush and Close the sinks received in the last call, each
\* as what was called and on which sink.
SinkCalls == [i \in DOMAIN call.emit |-> <<call.emit[i].k, call.emit[i].sink>>]

\* C27: Close on an open Writer flushes the compression writer, if there is
\* one, then the underlying sink, then closes the former and then the
\* latter; it makes all of these calls whichever of them return an error,
\* marks the Writer closed, and returns the errors joined, nil where there
\* is none.
C27_CloseInnerFirst ==
    (call.op = "Close" /\ ~call.pre.closed) =>
        /\ closed
        /\ SinkCalls = IF call.pre.compW # "nil"
                       THEN << <<"flush", "cw">>, <<"flush", "w">>,
                               <<"close", "cw">>, <<"close", "w">> >>
                       ELSE << <<"flush", "w">>, <<"close", "w">> >>
        /\ call.err = "nil" <=>
              \A i \in DOMAIN SinkCalls : SinkCalls[i] \notin call.arg
        /\ call.arg = {<<"close", "w">>} => call.err = "Join(Err(close w))"
        /\ (call.pre.compW # "nil" /\ Cardinality(call.arg) = 4) =>
              call.err = "Join(Join(Err(flush cw); Err(flush w)); "
                            \o "Err(close cw); Err(close w))"

\* A Close on a compressing Writer whose sinks fail every call.
C27_Witness ==
    /\ call.op = "Close" /\ ~call.pre.closed
    /\ call.pre.compW = "cw"
    /\ Cardinality(call.arg) = 4
    /\ Len(call.emit) = 4
    /\ closed

\* C28: on a Writer that Close has closed, WriteHeader, WriteTrailer,
\* MkdirAll, Write, ReadFrom, StartCompression, Flush and Close fail with
\* os.ErrClosed, send no byte to a sink, call Flush or Close on no sink, and
\* leave the Writer closed and as it was.
C28_ClosedAbsorbs ==
    (/\ call.op \in {"WriteHeader", "WriteTrailer", "MkdirAll", "Write",
                     "ReadFrom", "StartCompression", "Flush", "Close"}
     /\ call.pre.closed) =>
        /\ call.err = "ErrClosed"
        /\ call.n = 0
        /\ call.emit = <<>>
        /\ closed
        /\ WriterIs(call.pre)

\* A ReadFrom of some bytes on a closed Writer that had payload to take.
C28_Witness ==
    /\ call.op = "ReadFrom" /\ call.pre.closed
    /\ call.pre.fileRemaining > 0
    /\ Len(call.arg) > 0
    /\ call.pre.room < 0
    /\ call.err = "ErrClosed"

-----------------------------------------------------------------------------
(* Properties of the byte count and of the filename *)

\* In the last call the current sink reported an error, having taken a part
\* of the bytes offered; before the call written was what the sink had taken.
PartialWrite ==
    /\ call.op # "NewWriter"
    /\ call.pre.written = call.pre.wire.n
    /\ call.emit # <<>>
    /\ call.emit[Len(call.emit)].n < call.emit[Len(call.emit)].len
    /\ call.err = "ErrSink"

\* C29: after a call that failed because the current sink took only a part
\* of a header, of padding or of payload, written is the number of bytes the
\* current sink has taken since it became the current sink.
C29_WrittenCounts == PartialWrite => written = wire.n

\* C30: no header that WriteHeader sends to the sink has a Filename that
\* begins with a slash.
C30_NoLeadingSlash ==
    HeaderCall =>
        \A i \in DOMAIN call.emit :
            call.emit[i].k = "hdr"
                => SubSeq(call.emit[i].hdr.Filename, 1, 1) # "/"

-----------------------------------------------------------------------------
(* Properties of WriteTrailer *)

\* The chunks of the last call that carry a header or a filename.
EmitHeaderParts == SelectSeq(call.emit, LAMBDA c : c.k \in {"hdr", "name"})

\* C31: WriteTrailer sends to the sink no directory header and no header
\* other than the canonical trailer (magic 070701, NumLinks 1, Filename
\* TRAILER!!!, FilenameSize 11, Inode and every other field 0, the zero Mtime
\* going on the wire as 0), whatever the Writer did before; and a WriteTrailer that returns no error has sent
\* exactly one header, completely: its 110 bytes, then the filename and NUL.
C31_CanonicalTrailer ==
    call.op = "WriteTrailer" =>
        /\ \A i \in DOMAIN EmitHeaderParts :
              /\ ~EmitHeaderParts[i].auto
              /\ EmitHeaderParts[i].hdr = trailerHeader
              /\ mtimeUnix(EmitHeaderParts[i].hdr) = 0
        /\ Len(EmitHeaderParts) <= 2
        /\ call.err = "nil" =>
              /\ Len(EmitHeaderParts) = 2
              /\ EmitHeaderParts[1].k = "hdr" /\ EmitHeaderParts[2].k = "name"
              /\ EmitHeaderParts[1].n = HeaderSize
              /\ EmitHeaderParts[2].n = Len(TrailerFilename) + 1
              /\ Len(EmitHdrs) = 1

\* A second trailer, written after the first one and after directories that
\* advanced the inode counter, with the directory set not empty.
C31_Witness ==
    /\ call.op = "WriteTrailer" /\ call.err = "nil"
    /\ call.pre.nextInode > 2
    /\ call.pre.mkdirs # {}
    /\ \E i \in DOMAIN inodes : i < Len(inodes) /\ inodes[i].trailer
    /\ OwnHdr.hdr.Inode = 0

-----------------------------------------------------------------------------
(* The checksum functions and the methods of Mode *)

\* A uint32 is kept as two halves <<high, low>>, each below Half32.
Half32 == 65536

u32(n) == <<(n \div Half32) % Half32, n % Half32>>

\* a + b on uint32, wrapping around
add32(a, b) ==
    <<(a[1] + b[1] + ((a[2] + b[2]) \div Half32)) % Half32,
      (a[2] + b[2]) % Half32>>

\* ComputeChecksum: `for _, b := range data { sum += uint32(b) }`
RECURSIVE ComputeChecksum(_)
ComputeChecksum(data) ==
    IF data = <<>> THEN u32(0)
    ELSE add32(u32(data[Len(data)]),
               ComputeChecksum(SubSeq(data, 1, Len(data) - 1)))

\* One result of r.Read(raw[:]): the bytes put in raw, and the error.
ReadResult(bs, e) == [bytes |-> bs, err |-> e]

\* ReaderChecksum on a reader whose Read calls return `reads`, one after the
\* other, and (0, io.EOF) after the last of them; sum is the sum so far.
RECURSIVE ReaderChecksum(_, _)
ReaderChecksum(reads, sum) ==
    IF reads = <<>> THEN [sum |-> sum, err |-> "nil"]
    ELSE IF Head(reads).err = "EOF"
    THEN [sum |-> sum, err |-> "nil"]
    ELSE IF Head(reads).err # "nil"
    THEN [sum |-> u32(0), err |-> Head(reads).err]
    ELSE ReaderChecksum(Tail(reads),
            add32(sum, ComputeChecksum(Head(reads).bytes)))

\* a &^ b on unsigned integers
AndNot(a, b) == a - BitAnd(a, b)

\* Mode.Perms
Perms(m) == BitAnd(m, Mode_PermsMask)

\* SetPerms that drops the bits outside the permissions.
SetPerms_only(m, perms) == BitAnd(perms, Mode_PermsMask)

\* Mode.SetFileType, Mode.SetPerms, Mode.SetBits, Mode.ClearBits: the value
\* they store in *m and return
SetFileType(m, ftype) ==
    BitOr(AndNot(m, Mode_FileTypeMask), BitAnd(ftype, Mode_FileTypeMask))

SetPerms(m, perms) ==
    BitOr(AndNot(m, Mode_PermsMask), BitAnd(perms, Mode_PermsMask))

SetBits(m, bits) == BitOr(m, bits)

ClearBits(m, bits) == AndNot(m, bits)

\* Mode.SUID, Mode.SGID, Mode.Sticky
Mode_SUID == 2048
Mode_SGID == 1024
Mode_Sticky == 512

SUID(m) == FileType(m) = Mode_SUID
SGID(m) == FileType(m) = Mode_SGID
Sticky(m) == FileType(m) = Mode_Sticky

\* The inputs: byte strings and the ways a reader hands them out, in two
\* Read calls of which the second may carry io.EOF or another error.
Datas == {<<>>, <<7>>, <<255, 255, 254>>}

Readers ==
    UNION {{<<ReadResult(SubSeq(d, 1, k), "nil"),
              ReadResult(SubSeq(d, k + 1, Len(d)), e)>> :
                k \in 0..Len(d), e \in {"nil", "EOF", "ErrRead"}} : d \in Datas}
    \cup {<<>>, <<ReadResult(<<>>, "EOF")>>}

Modes == {0, 1024, 35309, 17407}

ModeArgs == {0, 420, 3072, 16384, 65535}

\* A caller holds one of the Mode values.
InitF ==
    /\ WriterIs(NewWriter(0 - 1))
    /\ call = NoCall
    /\ nops = 0
    /\ inodes = <<>>
    /\ input = <<>>
    /\ rpos = 0
    /\ nread = 0
    /\ fileN = 0
    /\ rcall = NoRCall
    /\ expect = <<>>
    /\ entry = 0
    /\ live = TRUE
    /\ got = <<>>
    /\ comp = NoComp
    /\ curMode \in Modes
    /\ fn = NoFn
    /\ run = NoRun
    /\ par = NoPar

\* The call `op` with argument `arg` returned `out` and left `after` in the
\* Mode the caller holds.
Called(op, arg, out, after) ==
    /\ fn' = [op |-> op, arg |-> arg, m |-> curMode, out |-> out]
    /\ curMode' = after
    /\ UNCHANGED <<wvars, rvars, run, par>>

DoComputeChecksum ==
    \E d \in Datas : Called("ComputeChecksum", d, ComputeChecksum(d), curMode)

DoReaderChecksum ==
    \E r \in Readers :
        Called("ReaderChecksum", r, ReaderChecksum(r, u32(0)), curMode)

DoSetFileType ==
    \E a \in ModeArgs :
        Called("SetFileType", a, SetFileType(curMode, a), SetFileType(curMode, a))

DoSetPerms ==
    \E a \in ModeArgs :
        Called("SetPerms", a, SetPerms(curMode, a), SetPerms(curMode, a))

DoSetBits ==
    \E a \in ModeArgs :
        Called("SetBits", a, SetBits(curMode, a), SetBits(curMode, a))

DoClearBits ==
    \E a \in ModeArgs :
        Called("ClearBits", a, ClearBits(curMode, a), ClearBits(curMode, a))

\* Mode.WithPerms has a value receiver: the caller's Mode stays as it is.
DoWithPerms ==
    \E a \in ModeArgs : Called("WithPerms", a, SetPerms(curMode, a), curMode)

\* The methods that only read the Mode.
DoInspect ==
    Called("Inspect", <<>>,
           [Perms |-> Perms(curMode), FileType |-> FileType(curMode),
            SUID |-> SUID(curMode), SGID |-> SGID(curMode),
            Sticky |-> Sticky(curMode)],
           curMode)

NextF ==
    \/ DoComputeChecksum
    \/ DoReaderChecksum
    \/ DoSetFileType
    \/ DoSetPerms
    \/ DoSetBits
    \/ DoClearBits
    \/ DoWithPerms
    \/ DoInspect

SpecF == InitF /\ [][NextF]_vars

-----------------------------------------------------------------------------
(* Properties of the set of emitted directories *)

\* C37: whatever calls have been made and whatever they returned, the sink
\* has received in full, since the last trailer it received, a directory
\* header for every path the Writer holds in mkdirs.
C37_DirsWritten == mkdirs \subseteq wire.dirs

-----------------------------------------------------------------------------
(* Properties of Close on a compressing Writer *)

\* The calls of the last method on the compression writer that have it
\* write to the underlying sink: its Flush, which passes on what it has
\* buffered, and its Close, which writes the end of the compressed stream
\* (compress/gzip: the rest of the data and the 8 bytes of CRC and size).
WrapperWrites ==
    {i \in DOMAIN SinkCalls :
        SinkCalls[i] \in {<<"flush", "cw">>, <<"close", "cw">>}}

\* C38: when Close closes a compressing Writer, the underlying sink is
\* flushed after every call that has the compression writer write to it,
\* the Close of the compression writer included, so that a sink that
\* buffers and has Flush but no Close holds nothing back.
C38_WrapperFlushed ==
    (call.op = "Close" /\ ~call.pre.closed /\ call.pre.compW # "nil") =>
        \A i \in WrapperWrites :
            \E j \in DOMAIN SinkCalls :
                j > i /\ SinkCalls[j] = <<"flush", "w">>

-----------------------------------------------------------------------------
(* Properties of the Reader on streams of several segments *)

\* The number of trailers among the first n headers of the stream.
RECURSIVE TrailersIn(_)
TrailersIn(n) ==
    IF n = 0 THEN 0
    ELSE TrailersIn(n - 1) + (IF Trailer(expect[n].hdr) THEN 1 ELSE 0)

\* The stream is made of segments that each end with their trailer.
TrailerTerminated ==
    /\ Len(expect) >= 1
    /\ Trailer(expect[Len(expect)].hdr)

\* C36: on a stream of uncompressed segments the Writer wrote, each ending
\* with its trailer, every Next returns the next header of the stream in
\* order, a trailer as any other header, until all have been returned; Next
\* fails only then, and with io.EOF.
C36_TrailersPassed ==
    (rcall.op = "Next" /\ TrailerTerminated) =>
        IF EntryBefore < Len(expect)
        THEN /\ rcall.err = "nil"
             /\ live
             /\ NextInOrder
             /\ Trailer(rcall.hdr) = Trailer(expect[entry].hdr)
        ELSE rcall.err = "EOF"

\* Next has failed with io.EOF behind the trailer of the second segment,
\* having returned every header of both segments.
C36_Witness ==
    /\ rcall.op = "Next" /\ TrailerTerminated
    /\ rcall.err = "EOF"
    /\ entry = Len(expect)
    /\ TrailersIn(Len(expect)) >= 2
    /\ ~Trailer(expect[Len(expect) - 1].hdr)

-----------------------------------------------------------------------------
(* Properties of the checksum functions and of Mode *)

\* The bytes a reader delivers up to its end of input: those of every Read
\* up to and including the first one that returns an error.
RECURSIVE Delivered(_)
Delivered(reads) ==
    IF reads = <<>> THEN <<>>
    ELSE IF Head(reads).err # "nil" THEN Head(reads).bytes
    ELSE Head(reads).bytes \o Delivered(Tail(reads))

\* The reader ends with io.EOF and reports no other error.
EndsByEOF(reads) == \A i \in DOMAIN reads : reads[i].err \in {"nil", "EOF"}

\* C32: on a reader that ends with end-of-input, ReaderChecksum returns no
\* error and the sum ComputeChecksum gives for all the bytes the reader
\* delivered, however they are spread over the Read calls, the bytes that
\* arrive together with end-of-input included; on immediate end-of-input the
\* sum is 0.
C32_ReaderChecksum ==
    (fn.op = "ReaderChecksum" /\ EndsByEOF(fn.arg)) =>
        /\ fn.out.err = "nil"
        /\ fn.out.sum = ComputeChecksum(Delivered(fn.arg))
        /\ Delivered(fn.arg) = <<>> => fn.out.sum = u32(0)

\* Bit i of n, and the bits a Mode of the model can have set.
Bit(n, i) == (n \div (2 ^ i)) % 2

ModeBitNumbers == 0..15

\* a and b differ in no bit outside those set in `within`.
SameOutside(a, b, within) ==
    \A i \in ModeBitNumbers : Bit(within, i) = 0 => Bit(a, i) = Bit(b, i)

\* C33: SetFileType changes no bit of the Mode outside 0o170000, SetPerms
\* (and WithPerms, in the value it returns) none outside 0o777, SetBits(b)
\* and ClearBits(b) none outside b; each of the four returns the Mode it has
\* stored; and Perms() is the Mode's low nine bits.
C33_ModeBitsKept ==
    /\ fn.op = "SetFileType" => SameOutside(fn.m, curMode, Mode_FileTypeMask)
    /\ fn.op = "SetPerms" => SameOutside(fn.m, curMode, Mode_PermsMask)
    /\ fn.op = "WithPerms" => SameOutside(fn.m, fn.out, Mode_PermsMask)
    /\ fn.op \in {"SetBits", "ClearBits"} => SameOutside(fn.m, curMode, fn.arg)
    /\ fn.op \in {"SetFileType", "SetPerms", "SetBits", "ClearBits"} =>
          fn.out = curMode
    /\ fn.op = "Inspect" => fn.out.Perms = curMode % 512

\* SetPerms has replaced the permissions of a set-uid regular file, given an
\* argument with bits outside the permissions.
C33_Witness ==
    /\ fn.op = "SetPerms"
    /\ fn.m = Mode_File + Mode_SUID + 493
    /\ fn.arg = 65535
    /\ curMode = Mode_File + Mode_SUID + 511

\* C40: SUID() is true exactly when bit 0o4000 of the Mode is set, SGID()
\* exactly when bit 0o2000 is set, Sticky() exactly when bit 0o1000 is set.
C40_AttributeBits ==
    fn.op = "Inspect" =>
        /\ fn.out.SUID <=> Bit(curMode, 11) = 1
        /\ fn.out.SGID <=> Bit(curMode, 10) = 1
        /\ fn.out.Sticky <=> Bit(curMode, 9) = 1

-----------------------------------------------------------------------------
(* Properties of the Reader's position *)

\* The last call was a Next that returned a header.
GaveHeader == rcall.op = "Next" /\ rcall.err = "nil"

\* C34: nread is the number of bytes consumed from the stream the Reader
\* stands on plus the payload bytes of the current file not consumed yet; a
\* header returned by Next has as HeaderOffset the place of its first byte in
\* that stream and as DataOffset the place of its first payload byte, which
\* is the first multiple of 4 behind the filename; and once
\* ContinueCompressed has installed a decompressor the count starts again at
\* 0, on the decompressed bytes.
C34_PositionCounted ==
    /\ nread = rpos + fileN
    /\ GaveHeader =>
          /\ entry <= Len(expect)
          /\ rcall.HeaderOffset = expect[entry].at
          /\ SubSeq(input, rcall.HeaderOffset + 1, rcall.HeaderOffset + HeaderSize)
                = toText(expect[entry].hdr)
          /\ rcall.DataOffset = alignUp(rcall.HeaderOffset + HeaderSize
                                          + Len(rcall.hdr.Filename) + 1, 4)
          /\ rcall.DataOffset = rpos
          /\ Len(expect[entry].data) <= rcall.hdr.DataSize
          /\ SubSeq(input, rcall.DataOffset + 1,
                    rcall.DataOffset + Len(expect[entry].data))
                = expect[entry].data
    /\ (rcall.op = "ContinueCompressed" /\ rcall.isCompressed
            /\ rcall.err = "nil") =>
          /\ nread = 0 /\ rpos = 0
          /\ input = Expand(SubSeq(rcall.pre.in, comp.at + 3,
                                   Len(rcall.pre.in)), 1)

\* Next has returned, from the decompressed stream, a header that has a
\* payload and stands behind another entry.
C34_Witness ==
    /\ GaveHeader
    /\ comp.entered
    /\ rcall.HeaderOffset > 0
    /\ rcall.hdr.DataSize > 0
    /\ rcall.DataOffset > rcall.HeaderOffset + HeaderSize

-----------------------------------------------------------------------------
(* Reader.Next and Reader.ContinueCompressed, one loop iteration at a time. *)
(* run.pc is the place the call has reached: "advance", the head of the     *)
(* loop of advanceToNextHeader; "padding", the head of the loop of          *)
(* discardPadding; "header", before hdr.ReadFrom; "lookahead", before the   *)
(* PeekLookahead of ContinueCompressed; "idle", no call in progress.        *)

\* The NUL bytes at the head of bs, counted as the loop over peek does:
\* `if b == 0 { n = int64(i) + 1 } else { break }`
nulsAhead(bs) ==
    CHOOSE n \in 0..Len(bs) :
        /\ \A k \in 1..n : bs[k] = 0
        /\ n = Len(bs) \/ bs[n + 1] # 0

\* One iteration of the loop of discardPadding that consumes nothing.
padRound_stay(rd) ==
    IF avail(rd) < 64 THEN [rd EXCEPT !.err = "EOF", !.n = 0]
    ELSE [ok(rd) EXCEPT !.n = nulsAhead(Peek(rd, 64))]

\* One iteration of the loop of Reader.discardPadding; n is the number of
\* NUL bytes counted, and the loop goes on while it is 64.
padRound(rd) ==
    IF avail(rd) < 64 THEN [rd EXCEPT !.err = "EOF", !.n = 0]
    ELSE [ok(discard(rd, nulsAhead(Peek(rd, 64))))
            EXCEPT !.n = nulsAhead(Peek(rd, 64))]

\* The call in progress has left the Reader as in r and goes on at pc;
\* run.mark is the place the Reader stood at when the loop of
\* advanceToNextHeader last began an iteration.
GoesOn(r, pc) ==
    /\ input' = r.in
    /\ rpos' = r.pos
    /\ nread' = r.nread
    /\ fileN' = r.fileN
    /\ run' = [run EXCEPT !.pc = pc, !.err = r.err,
                          !.mark = IF run.pc = "advance" THEN rpos ELSE @]
    /\ UNCHANGED <<wvars, rcall, expect, entry, live, got, comp, curMode, fn, par>>

\* The places of the stream where PeekLookahead can find a cpio magic.
HeaderPlaces(s) ==
    {p \in s.pos..(Len(s.in) - 6) :
        SubSeq(s.in, p + 1, p + 6) \in {StringBytes(Magic_070701),
                                        StringBytes(Magic_070702)}}

\* Reader.next from hdr.ReadFrom on, when the loop of advanceToNextHeader
\* has brought the Reader s to the place p: discard adds to nread what it
\* takes from the stream, so nread has moved as far as the place.
headerAt(s, p) ==
    headerRead(HeaderReadFrom([s EXCEPT !.pos = p,
                                        !.nread = s.nread + (p - s.pos)]),
               s.nread + (p - s.pos))

\* A call begins: op with the map `readers`, skipUnreadFile having returned
\* s.  run.parse holds, for each place where a header can begin, what
\* reading the header there gives; the step that reads the header takes its
\* result from it.
CallBegins(op, readers, s, pc) ==
    /\ run.pc = "idle"
    /\ input' = s.in
    /\ rpos' = s.pos
    /\ nread' = s.nread
    /\ fileN' = s.fileN
    /\ run' = [op |-> op, pc |-> IF s.err # "nil" THEN "idle" ELSE pc,
               err |-> s.err, readers |-> readers, mark |-> s.pos,
               pre |-> RD,
               parse |-> IF op = "Next"
                         THEN [p \in HeaderPlaces(s) |-> headerAt(s, p)]
                         ELSE <<>>]
    /\ UNCHANGED <<wvars, rcall, expect, entry, live, got, comp, curMode, fn, par>>

CallNext == CallBegins("Next", <<>>, skipUnreadFile(RD), "advance")

CallContinueCompressed ==
    \E m \in ReaderMaps :
        CallBegins("ContinueCompressed", m, skipUnreadFile(RD), "padding")

\* The loop of advanceToNextHeader, once PeekLookahead has returned la
advanceOn(la) ==
    IF la.err # "nil" THEN GoesOn([RD EXCEPT !.err = la.err], "idle")
    ELSE IF Compression(la.la)
    THEN GoesOn([RD EXCEPT !.err = "ErrCompressedContentAhead"], "idle")
    ELSE IF la.la = "EOF" THEN GoesOn([RD EXCEPT !.err = "EOF"], "idle")
    ELSE IF la.la = "Padding" THEN GoesOn(RD, "padding")
    ELSE IF la.la = "CpioFile" THEN GoesOn(RD, "header")
    ELSE GoesOn([RD EXCEPT !.err = "ErrUnknown"], "idle")

StepAdvance == run.pc = "advance" /\ advanceOn(PeekLookahead(RD))

\* discardPadding, once an iteration of its loop has returned p
paddedOn(p) ==
    IF p.err # "nil" THEN GoesOn(p, "idle")
    ELSE IF p.n = 64 THEN GoesOn(p, "padding")
    ELSE IF run.op = "Next" THEN GoesOn(p, "advance")
    ELSE GoesOn(p, "lookahead")

StepPadding == run.pc = "padding" /\ paddedOn(padRound(RD))

StepHeader ==
    /\ run.pc = "header"
    /\ GoesOn(run.parse[rpos], "idle")

StepLookahead ==
    /\ run.pc = "lookahead"
    /\ GoesOn(continueAt(RD, PeekLookahead(RD), run.readers), "idle")

\* The streams: those of the Writer, with and without a compressed part,
\* runs of NUL bytes of the lengths around 64, alone and before other bytes,
\* and texts that are no header.
ZeroRuns == {Zeros(n) : n \in {1, 2, 63, 64, 65, 130}}

LoopInputs ==
    {StreamOf(Steps(NewWriter(0 - 1), s).emit) : s \in Scripts}
    \cup {StreamOf(OuterOf(s).emit)
            \o Compressed(s.codec, StreamOf(InnerOf(s).emit)) : s \in ZScripts}
    \cup ZeroRuns
    \cup {z \o StreamOf(WriteTrailer(NewWriter(0 - 1)).emit) : z \in ZeroRuns}
    \cup {z \o <<31, 139>> \o Zeros(70) : z \in ZeroRuns}
    \cup BadVectors

InitL ==
    /\ WriterIs(NewWriter(0 - 1))
    /\ call = NoCall
    /\ nops = 0
    /\ inodes = <<>>
    /\ input \in LoopInputs
    /\ rpos = 0
    /\ nread = 0
    /\ fileN = 0
    /\ rcall = NoRCall
    /\ expect = <<>>
    /\ entry = 0
    /\ live = TRUE
    /\ got = <<>>
    /\ comp = NoComp
    /\ NoFunctionCalled

\* The steps of a call in progress.
StepL ==
    \/ StepAdvance
    \/ StepPadding
    \/ StepHeader
    \/ StepLookahead

NextL ==
    \/ CallNext
    \/ CallContinueCompressed
    \/ StepL

\* A call that has begun goes on until it returns: the caller is a single
\* thread that runs the method to its end.
SpecL == InitL /\ [][NextL]_vars /\ WF_vars(StepL)

-----------------------------------------------------------------------------
(* Properties of the loops of the Reader *)

\* When a call followed step by step returns, it has left the Reader as the
\* same call does when taken as a whole.
StepwiseAgrees ==
    (run.pc = "idle" /\ run.op # "none") =>
        /\ run.op = "Next" =>
              /\ input = next(run.pre).in /\ rpos = next(run.pre).pos
              /\ nread = next(run.pre).nread /\ fileN = next(run.pre).fileN
              /\ run.err = next(run.pre).err
        /\ run.op = "ContinueCompressed" =>
              /\ input = ContinueCompressed(run.pre, run.readers).in
              /\ rpos = ContinueCompressed(run.pre, run.readers).pos
              /\ nread = ContinueCompressed(run.pre, run.readers).nread
              /\ run.err = ContinueCompressed(run.pre, run.readers).err

\* C35: on every finite stream a call of Next or of ContinueCompressed that
\* has begun returns; every iteration of the loop of advanceToNextHeader that
\* saw padding has consumed at least one byte when the loop comes round
\* again; and a Next that returns without an error has consumed a header.
C35_CallsReturn ==
    /\ (run.pc # "idle") ~> (run.pc = "idle")
    /\ [][(run.pc = "padding" /\ run'.pc = "advance") => rpos' > run.mark]_vars
    /\ [][(run.op = "Next" /\ run.pc # "idle" /\ run'.pc = "idle"
                /\ run'.err = "nil")
            => (run.pc = "header" /\ rpos' >= rpos + HeaderSize)]_vars

\* A Next has returned a header after two rounds of discardPadding.
C35_Witness ==
    /\ run.op = "Next" /\ run.pc = "idle" /\ run.err = "nil"
    /\ run.mark > run.pre.pos + 64
    /\ rpos > run.mark + HeaderSize

-----------------------------------------------------------------------------
(* Two Writers, two callers: WriteHeader and WriteTrailer, one statement at *)
(* a time, on the path where the Writer is open and its sink takes every    *)
(* byte.                                                                    *)

Callers == {1, 2}

\* A caller begins no call once its Writer has given this many inodes.
MaxParInode == 4

ParHeaders ==
    {Header("/bin/sh", Mode_File + 493, 0, 0),
     [Header("/", Mode_Dir + 493, 0, 7) EXCEPT !.Magic = Magic_070702,
                                               !.NumLinks = 2]}

\* The Header a caller's WriteHeader works on: WriteTrailer passes
\* &trailerHeader, the address of the package variable.
TheHeader(c) ==
    IF par.op[c] = "WriteTrailer" THEN par.global ELSE par.own[c]

HeaderObject(c) ==
    IF par.op[c] = "WriteTrailer" THEN <<"trailerHeader", 0>> ELSE <<"hdr", c>>

HeaderFields ==
    {"Magic", "Inode", "Mode", "Uid", "Gid", "NumLinks", "Mtime", "DataSize",
     "Major", "Minor", "RMajor", "RMinor", "FilenameSize", "Checksum",
     "Filename"}

\* One access: the object, its field, "R" or "W".
Rd(c, f) == <<HeaderObject(c), f, "R">>
Wr(c, f) == <<HeaderObject(c), f, "W">>
OwnRd(c, f) == << <<"iw", c>>, f, "R">>
OwnWr(c, f) == << <<"iw", c>>, f, "W">>

\* The statements of WriteHeader and writeHeader that touch hdr or iw.
AtClosed == 1
AtTrim == 2
AtSetFilename == 3
AtDir == 4
AtParents == 5
AtMagic == 6
AtNumLinks == 7
AtInode == 8
AtNextInode == 9
AtFilenameSize == 10
AtWriteTo == 11
AtDataSize == 12

\* The memory accesses of the statement caller c executes next.
Accesses(c) ==
    IF par.op[c] = "none" THEN {}
    ELSE CASE par.pc[c] = AtClosed -> {OwnRd(c, "closed")}
           [] par.pc[c] = AtTrim -> {Rd(c, "Filename")}
           [] par.pc[c] = AtSetFilename -> {Wr(c, "Filename")}
           [] par.pc[c] = AtDir ->
                {Rd(c, "Mode")}
                    \cup (IF ModeDir(TheHeader(c).Mode)
                          THEN {OwnWr(c, "mkdirs")} ELSE {})
           [] par.pc[c] = AtParents ->
                {Rd(c, "Filename"), OwnWr(c, "mkdirs")}
                    \cup (IF Trailer(TheHeader(c)) THEN {}
                          ELSE {OwnRd(c, "nextInode"), OwnWr(c, "nextInode"),
                                OwnWr(c, "written")})
           [] par.pc[c] = AtMagic ->
                {Rd(c, "Magic")}
                    \cup (IF TheHeader(c).Magic = "" THEN {Wr(c, "Magic")}
                          ELSE {})
           [] par.pc[c] = AtNumLinks ->
                {Rd(c, "NumLinks")}
                    \cup (IF TheHeader(c).NumLinks = 0
                          THEN {Wr(c, "NumLinks")} ELSE {})
           [] par.pc[c] = AtInode ->
                {Rd(c, "Inode")}
                    \cup (IF TheHeader(c).Inode = 0 THEN {Rd(c, "Filename")}
                          ELSE {})
                    \cup (IF TheHeader(c).Inode = 0 /\ ~Trailer(TheHeader(c))
                          THEN {OwnRd(c, "nextInode"), Wr(c, "Inode")}
                          ELSE {})
           [] par.pc[c] = AtNextInode ->
                {Rd(c, "Inode"), OwnRd(c, "nextInode"), OwnWr(c, "nextInode")}
           [] par.pc[c] = AtFilenameSize ->
                {Rd(c, "Filename"), Wr(c, "FilenameSize")}
           [] par.pc[c] = AtWriteTo ->
                {Rd(c, f) : f \in HeaderFields} \cup {OwnWr(c, "written")}
           [] OTHER -> {Rd(c, "DataSize"), OwnWr(c, "fileRemaining")}

\* The Header of caller c becomes h; the rest of par as given in p.
WithHeader(p, c, h) ==
    IF par.op[c] = "WriteTrailer" THEN [p EXCEPT !.global = h]
    ELSE [p EXCEPT !.own[c] = h]

\* The directories MkdirAll(filepath.Dir(filename), 0) has yet to emit.
NewParents(c) == ParentSet(par.filename[c]) \ par.mkdirs[c]

\* par once caller c has executed its next statement.
Executed(c) ==
    LET h == TheHeader(c)
        on == [par EXCEPT !.pc[c] = @ + 1]
    IN  CASE par.pc[c] = AtTrim ->
                [on EXCEPT !.filename[c] = WireName(h.Filename)]
          [] par.pc[c] = AtSetFilename ->
                WithHeader(on, c, [h EXCEPT !.Filename = par.filename[c]])
          [] par.pc[c] = AtDir ->
                IF ModeDir(h.Mode)
                THEN [on EXCEPT !.mkdirs[c] = @ \cup {par.filename[c]}]
                ELSE on
          [] par.pc[c] = AtParents ->
                IF Trailer(h) THEN [on EXCEPT !.mkdirs[c] = {}]
                ELSE [on EXCEPT !.mkdirs[c] = @ \cup NewParents(c),
                                !.nextInode[c] =
                                    @ + Cardinality(NewParents(c))]
          [] par.pc[c] = AtMagic ->
                WithHeader(on, c,
                    [h EXCEPT !.Magic = IF @ = "" THEN Magic_070701 ELSE @])
          [] par.pc[c] = AtNumLinks ->
                WithHeader(on, c, [h EXCEPT !.NumLinks = IF @ = 0 THEN 1 ELSE @])
          [] par.pc[c] = AtInode ->
                WithHeader(on, c,
                    [h EXCEPT !.Inode = IF @ = 0 /\ ~Trailer(h)
                                        THEN par.nextInode[c] ELSE @])
          [] par.pc[c] = AtNextInode ->
                [on EXCEPT !.nextInode[c] = Max(@, h.Inode) + 1]
          [] par.pc[c] = AtFilenameSize ->
                WithHeader(on, c,
                    [h EXCEPT !.FilenameSize = Len(h.Filename) + 1])
          [] par.pc[c] = AtDataSize ->
                [on EXCEPT !.op[c] = "none", !.pc[c] = 0]
          [] OTHER -> on

ParUnchanged == UNCHANGED <<wvars, rvars, curMode, fn, run>>

\* Caller c calls WriteHeader(&hdr) on its Writer.
CallWriteHeader(c) ==
    /\ par.op[c] = "none"
    /\ par.nextInode[c] < MaxParInode
    /\ \E hdr \in ParHeaders :
          par' = [par EXCEPT !.op[c] = "WriteHeader", !.pc[c] = AtClosed,
                             !.own[c] = hdr]
    /\ ParUnchanged

\* Caller c calls WriteTrailer on its Writer.
CallWriteTrailer(c) ==
    /\ par.op[c] = "none"
    /\ par.nextInode[c] < MaxParInode
    /\ par' = [par EXCEPT !.op[c] = "WriteTrailer", !.pc[c] = AtClosed]
    /\ ParUnchanged

\* Caller c executes its next statement.
Statement(c) ==
    /\ par.op[c] # "none"
    /\ par' = Executed(c)
    /\ ParUnchanged

InitD ==
    /\ WriterIs(NewWriter(0 - 1))
    /\ call = NoCall
    /\ nops = 0
    /\ inodes = <<>>
    /\ input = <<>>
    /\ rpos = 0
    /\ nread = 0
    /\ fileN = 0
    /\ rcall = NoRCall
    /\ expect = <<>>
    /\ entry = 0
    /\ live = TRUE
    /\ got = <<>>
    /\ comp = NoComp
    /\ NoFunctionCalled

NextD ==
    \E c \in Callers :
        \/ CallWriteHeader(c)
        \/ CallWriteTrailer(c)
        \/ Statement(c)

SpecD == InitD /\ [][NextD]_vars

-----------------------------------------------------------------------------
(* Properties of two Writers used at the same time *)

\* Two accesses to one field of one object, a write among them.
Conflict(a, b) == a[1] = b[1] /\ a[2] = b[2] /\ "W" \in {a[3], b[3]}

\* A WriteHeader that has returned has left the caller's Header as
\* wellFormed completes it, under the name that goes on the wire.
OwnHeaderCompleted ==
    \A c \in Callers :
        (par.op[c] = "none" /\ par.own[c] # NoHeader) =>
            /\ par.own[c].Filename = WireName(par.own[c].Filename)
            /\ par.own[c].Filename \in {"bin/sh", "."}
            /\ par.own[c] = wellFormed(par.own[c], par.own[c].Inode)
            /\ par.own[c].Inode # 0
            /\ par.nextInode[c] > par.own[c].Inode

\* C39: two callers, each on a Writer of its own, never stand before two
\* statements of which one writes a memory location that the other reads or
\* writes, whatever methods they are in, WriteTrailer included.
C39_NoSharedWrite ==
    \A c, d \in Callers :
        c # d => \A a \in Accesses(c) : \A b \in Accesses(d) : ~Conflict(a, b)

====
